---- MODULE Spec2Model ----
(***************************************************************************)
(* A model of the keptn CLI installation workflow (cli/cmd/install.go):    *)
(* the log stream classifier (copyAndCapture, getInstallerLogs), the       *)
(* readiness poller (waitForInstallerPod) and the post-install             *)
(* bootstrapper (setupKeptnAuthAndConfigure).                              *)
(*                                                                         *)
(* Text is modelled as a sequence of tokens.  A token is a tuple of        *)
(* strings: a marker "[keptn|LEVEL]" is <<"[keptn|", LEVEL, "]">>, a       *)
(* bracket block "[t]" is <<"[", "t", "]">>, and whitespace and plain text *)
(* are one-element tuples.  The regular expressions of the code are        *)
(* computed on these token sequences.                                      *)
(***************************************************************************)
EXTENDS Integers, Sequences, FiniteSets, TLC

\* ------------------------------------------------------------ bounds

\* Longest line, in tokens, a stream carries in SpecClassify.
MaxLineLen == 4
\* Most lines read from the one stream of SpecClassify.
MaxLines == 3
\* Most lines the log process writes, over both pipes, in SpecLogs.
MaxOut == 3
\* Lines a pipe holds before a write to it blocks.
PipeCap == 1
\* Most pods one kubectl get pods answer lists.
MaxPods == 2
\* Most rounds of waitForInstallerPod's loop.
MaxPolls == 3
\* Longest domain value, in tokens, kubectl get ksvc prints.
MaxDomainLen == 2
\* Most rounds of setupKeptnAuthAndConfigure's endpoint loop.
MaxAttempts == 16

MaxInputLen == 2

MaxReads == 3

MaxAnswerLen == 3
\* Most parts of a context name after its first.
MaxContextParts == 4
\* Longest manifest text, in words.
MaxManifestLen == 3

\* ------------------------------------------------- program constants

\* if retries >= 15
RetryNotice == 15

\* ------------------------------------------------- log line tokens

MarkerOpen == "[keptn|"

Marker(level) == <<MarkerOpen, level, "]">>

Bracket == <<"[", "t", "]">>

Space == <<" ">>

successMsg == <<"Installation of keptn complete.">>

OtherText == <<"boom">>

\* The levels the installer writes into its markers.
Levels == {"info", "error"}

LineTokens == {Marker(l) : l \in Levels} \cup {Bracket, Space, successMsg, OtherText}

LineSet == UNION {[1..n -> LineTokens] : n \in 1..MaxLineLen}

\* ------------------------------------------------- utils (logging)

VerboseLevel == "VerboseLevel"

InfoLevel == "InfoLevel"

QuietLevel == "QuietLevel"

\* utils.GetLogLevel: the severity a marker's level text maps to.
GetLogLevel(msgLogLevel) ==
    CASE msgLogLevel = "error" -> QuietLevel
      [] msgLogLevel = "debug" -> VerboseLevel
      [] OTHER -> InfoLevel

\* --------------------------------------------- copyAndCapture: regexps

\* A token the expression \[keptn\|[a-zA-Z]+\] matches.
IsMarker(tok) == Len(tok) = 3 /\ tok[1] = MarkerOpen /\ tok[3] = "]" /\ tok[2] # ""

StartsBracket(tok) == tok[1] \in {"[", MarkerOpen}

EndsBracket(tok) == tok[Len(tok)] = "]"

IsSpace(tok) == tok = Space

Min(S) == CHOOSE x \in S : \A y \in S : x <= y

Max(S) == CHOOSE x \in S : \A y \in S : x >= y

\* reg.FindStringSubmatch(txt): the place of the leftmost marker, 0 for none.
FindMarker(txt) ==
    LET at == {i \in 1..Len(txt) : IsMarker(txt[i])}
    IN  IF at = {} THEN 0 ELSE Min(at)

\* strings.TrimPrefix(.., "[keptn|"), strings.TrimSuffix(.., "]") of the match.
MsgLogLevel(txt) ==
    LET m  == txt[FindMarker(txt)]
        t1 == IF m[1] = MarkerOpen THEN Tail(m) ELSE m
        t2 == IF t1[Len(t1)] = "]" THEN SubSeq(t1, 1, Len(t1) - 1) ELSE t1
    IN  t2[1]

\* The places i where \[keptn\|[a-zA-Z]+\]\s+\[.*\] matches from token i on:
\* a marker, then whitespace, then a token opening a bracket.
SufixStarts(txt) ==
    {i \in 1..Len(txt) :
        /\ IsMarker(txt[i])
        /\ \E j \in (i + 1)..(Len(txt) - 1) :
              /\ \A k \in (i + 1)..j : IsSpace(txt[k])
              /\ StartsBracket(txt[j + 1])}

\* fullSufixReg.ReplaceAllString(txt, ""): the leftmost match runs, greedily,
\* to the last "]" of the line; nothing after it can match again.
RemoveSufix(txt) ==
    IF SufixStarts(txt) = {} THEN txt
    ELSE LET i == Min(SufixStarts(txt))
             k == Max({n \in 1..Len(txt) : EndsBracket(txt[n])})
         IN  SubSeq(txt, 1, i - 1) \o SubSeq(txt, k + 1, Len(txt))

RECURSIVE TrimLeft(_)
TrimLeft(s) == IF s # <<>> /\ IsSpace(Head(s)) THEN TrimLeft(Tail(s)) ELSE s

RECURSIVE TrimRight(_)
TrimRight(s) ==
    IF s # <<>> /\ IsSpace(s[Len(s)]) THEN TrimRight(SubSeq(s, 1, Len(s) - 1)) ELSE s

\* strings.TrimSpace
TrimSpace(s) == TrimRight(TrimLeft(s))

\* The text of a token sequence is the concatenation of its tokens' parts.
RECURSIVE Flatten(_)
Flatten(s) == IF s = <<>> THEN <<>> ELSE Head(s) \o Flatten(Tail(s))

\* outputStr := strings.TrimSpace(fullSufixReg.ReplaceAllString(txt, ""))
OutputStr(txt) == Flatten(TrimSpace(RemoveSufix(txt)))

\* ------------------------------------------ copyAndCapture: one drain

\* A variant that starts without the default success.
CCStartUnsuccessful ==
    [pc |-> "scan", errorOccured |-> FALSE, installSuccessful |-> FALSE,
     firstRead |-> TRUE, file |-> FALSE, written |-> 0, txt |-> <<>>,
     res |-> FALSE, err |-> FALSE]

\* The locals of one copyAndCapture call. pc: "scan" (at scanner.Scan),
\* "write" (a line was read), "classify" (the line is in the file),
\* "returned". file is FALSE for nil; written counts the lines appended.
CCStart ==
    [pc |-> "scan", errorOccured |-> FALSE, installSuccessful |-> TRUE,
     firstRead |-> TRUE, file |-> FALSE, written |-> 0, txt |-> <<>>,
     res |-> FALSE, err |-> FALSE]

\* scanner.Scan() returned true: the first line read withdraws the default
\* success.
CCScan(st, line) ==
    [st EXCEPT !.pc = "write", !.txt = line,
               !.installSuccessful = IF st.firstRead THEN FALSE ELSE @,
               !.firstRead = FALSE]

\* A variant that appends only the lines that carry a marker.
CCWriteMarkedOnly(st, createOK) ==
    IF ~st.file /\ ~createOK
    THEN [st EXCEPT !.pc = "returned", !.txt = <<>>, !.res = FALSE, !.err = TRUE]
    ELSE [st EXCEPT !.pc = "classify", !.file = TRUE,
                    !.written = IF FindMarker(st.txt) # 0 THEN @ + 1 ELSE @]

\* The log file is created on demand; the line is appended and synced.
CCWrite(st, createOK) ==
    IF ~st.file /\ ~createOK
    THEN [st EXCEPT !.pc = "returned", !.txt = <<>>, !.res = FALSE, !.err = TRUE]
    ELSE [st EXCEPT !.pc = "classify", !.file = TRUE, !.written = @ + 1]

\* A variant that lets each marker line overwrite the flag.
ErrorOccuredOverwritten(st) == GetLogLevel(MsgLogLevel(st.txt)) = QuietLevel

\* errorOccured is set by a marker of the quiet level.
ErrorOccuredAfter(st) ==
    st.errorOccured \/ GetLogLevel(MsgLogLevel(st.txt)) = QuietLevel

\* A variant that lets each marker line overwrite the flag.
InstallSuccessfulOverwritten(st) == OutputStr(st.txt) = successMsg

\* installSuccessful is set by the success message.
InstallSuccessfulAfter(st) ==
    st.installSuccessful \/ OutputStr(st.txt) = successMsg

\* The line is classified only when reg matches it. txt is the iteration's
\* own: it is dropped at the end of the loop body.
CCClassify(st) ==
    IF FindMarker(st.txt) # 0
    THEN [st EXCEPT !.pc = "scan", !.txt = <<>>,
                    !.errorOccured = ErrorOccuredAfter(st),
                    !.installSuccessful = InstallSuccessfulAfter(st)]
    ELSE [st EXCEPT !.pc = "scan", !.txt = <<>>]

\* scanner.Scan() returned false.
CCResult(st) == ~st.errorOccured /\ st.installSuccessful

CCReturn(st) == [st EXCEPT !.pc = "returned", !.res = CCResult(st), !.err = FALSE]

\* What one line read shows: a marker of the quiet level, the success message.
LineIsQuiet(line) ==
    FindMarker(line) # 0 /\ GetLogLevel(MsgLogLevel(line)) = QuietLevel

LineIsSuccess(line) == FindMarker(line) # 0 /\ OutputStr(line) = successMsg

Observe(line) == [quiet |-> LineIsQuiet(line), success |-> LineIsSuccess(line)]

\* ------------------------------------------------------------- state

VARIABLES
    cc,       \* SpecClassify: the locals of the copyAndCapture call
    ccHist,   \* SpecClassify: what each line read so far showed
    proc,     \* the kubectl logs process: pc, lines emitted, pending write, exit
    stdoutIn, \* the lines in the stdout pipe
    stderrIn, \* the lines in the stderr pipe
    tOut,     \* the goroutine's copyAndCapture(stdoutIn, ..) call
    tErr,     \* getInstallerLogs' own copyAndCapture(stderrIn, ..) call
    histOut,  \* what each line read from stdoutIn showed
    histErr,  \* what each line read from stderrIn showed
    gPc,      \* the goroutine: "idle", "drain", "sendRes", "sendErr", "done"
    mPc,      \* getInstallerLogs: "start", "drain", "recvRes", "recvErr",
              \*   "wait", "delete", "returned"
    installSuccessfulStdOut,  \* received from cRes
    errStdOut,                \* received from cErr
    ret,      \* what getInstallerLogs returned: "none" until it returns
    installerDeleted,         \* kubectl delete deployment installer succeeded
    wPc,      \* waitForInstallerPod: "loop", "returned"
    podName,  \* waitForInstallerPod's podName
    podRunning,               \* waitForInstallerPod's podRunning
    wErr,     \* waitForInstallerPod returned an error
    podResp,  \* the answer to the latest kubectl get pods
    polls,    \* the kubectl get pods calls made
    sPc,      \* setupKeptnAuthAndConfigure: "getSecret", "poll",
              \*   "authenticate", "configure", "returned"
    retries,  \* setupKeptnAuthAndConfigure's retries
    keptnEndpoint,            \* setupKeptnAuthAndConfigure's keptnEndpoint
    apiEndpointRetrieved,     \* setupKeptnAuthAndConfigure's apiEndpointRetrieved
    queryErr, \* the latest kubectl get ksvc failed
    notices,  \* "not yet available" notices printed by the latest attempt
    attempts, \* the kubectl get ksvc calls made
    authEndpoint,             \* the endpoint authenticate was called with
    sRet      \* what setupKeptnAuthAndConfigure returned: "none" until then

\* doInstallation
VARIABLES
    iPc,      \* the stage doInstallation is at: a name of StageOrder,
              \* "returned" or "panicked"
    iRet,     \* what doInstallation returned: "none" until then, "nil", "err"
    filePresent,      \* a file stands at installerPath
    done,     \* the calls doInstallation has made, in order, each with its outcome
    installerPodName  \* the name waitForInstallerPod returned

\* readUserInput
VARIABLES
    rPc,          \* "idle" before the call, "asking" in the loop, "done" after it
    regex,        \* which of the three patterns the caller passed
    value,        \* *value, the stored field
    valueBefore,  \* *value as the latest round found it
    userInput,    \* the latest line after Replace and TrimSpace
    reads         \* the lines read

\* installCmd.PreRunE and installCmd.RunE
VARIABLES
    pPc,            \* the place in PreRunE and RunE
    pErr,           \* the error the command ended with, <<>> for none
    configFilePath, \* *configFilePath, "" when the flag is not given
    mocking,        \* the mocking switch
    configFile,     \* what stands at configFilePath
    pCreds,         \* creds as parseConfig last returned it
    calls           \* the calls made outside the process, in order

\* getInstallCredentials and connectToCluster
VARIABLES
    aPc,          \* the place in getInstallCredentials
    creds,        \* *creds
    aRet,         \* what getInstallCredentials returned: "none" until then
    cacheWrites,  \* the calls of credentialmanager.SetInstallCreds
    cached,       \* the record the latest of them was given
    event,        \* what the latest step was: "tokenRejected", "orgRejected",
                  \* "declined", "confirmed", or "none" for any other
    credsBefore,  \* *creds as that step found it, when it was one of the four
    answer        \* the answer that step read, after TrimSpace

\* setDeploymentFileKey
VARIABLES
    tPc,          \* "idle", then "called" once the inputs are there
    manifest,     \* the text downloaded to installer.yaml
    desired,      \* the desired value of each placeholder
    order,        \* another order of the same replacements
    content,      \* the text of installer.yaml now
    applied,      \* the runs of setDeploymentFileKey on that file
    once,         \* the text the first of them wrote
    reordered     \* the text a run in the other order writes from manifest

classifyVars == <<cc, ccHist>>

logsVars == <<proc, stdoutIn, stderrIn, tOut, tErr, histOut, histErr, gPc, mPc,
              installSuccessfulStdOut, errStdOut, ret, installerDeleted>>

podVars == <<wPc, podName, podRunning, wErr, podResp, polls>>

endpointVars == <<sPc, retries, keptnEndpoint, apiEndpointRetrieved, queryErr, notices,
                  attempts, authEndpoint, sRet>>

installVars == <<iPc, iRet, filePresent, done, installerPodName>>

promptVars == <<rPc, regex, value, valueBefore, userInput, reads>>

preRunVars == <<pPc, pErr, configFilePath, mocking, configFile, pCreds, calls>>

credsVars == <<aPc, creds, aRet, cacheWrites, cached, event, credsBefore, answer>>

templateVars == <<tPc, manifest, desired, order, content, applied, once, reordered>>

vars == <<classifyVars, logsVars, podVars, endpointVars, installVars, promptVars,
          preRunVars, credsVars, templateVars>>

notClassify == <<logsVars, podVars, endpointVars, installVars, promptVars, preRunVars,
                 credsVars, templateVars>>

notLogs == <<classifyVars, podVars, endpointVars, installVars, promptVars, preRunVars,
             credsVars, templateVars>>

notPod == <<classifyVars, logsVars, endpointVars, installVars, promptVars, preRunVars,
            credsVars, templateVars>>

notEndpoint == <<classifyVars, logsVars, podVars, installVars, promptVars, preRunVars,
                 credsVars, templateVars>>

notInstall == <<classifyVars, logsVars, podVars, endpointVars, promptVars, preRunVars,
                credsVars, templateVars>>

notPrompt == <<classifyVars, logsVars, podVars, endpointVars, installVars, preRunVars,
               credsVars, templateVars>>

notPreRun == <<classifyVars, logsVars, podVars, endpointVars, installVars, promptVars,
               credsVars, templateVars>>

notCreds == <<classifyVars, logsVars, podVars, endpointVars, installVars, promptVars,
              preRunVars, templateVars>>

notTemplate == <<classifyVars, logsVars, podVars, endpointVars, installVars,
                 promptVars, preRunVars, credsVars>>

\* ---------------------------------------- SpecClassify: one stream

ClassifyInit == cc = CCStart /\ ccHist = <<>>

ClassifyScan ==
    /\ cc.pc = "scan"
    /\ Len(ccHist) < MaxLines
    /\ \E line \in LineSet :
          /\ cc' = CCScan(cc, line)
          /\ ccHist' = Append(ccHist, Observe(line))
    /\ UNCHANGED notClassify

ClassifyWrite ==
    /\ cc.pc = "write"
    /\ \E createOK \in BOOLEAN : cc' = CCWrite(cc, createOK)
    /\ UNCHANGED <<ccHist, notClassify>>

ClassifyLine ==
    /\ cc.pc = "classify"
    /\ cc' = CCClassify(cc)
    /\ UNCHANGED <<ccHist, notClassify>>

ClassifyEof ==
    /\ cc.pc = "scan"
    /\ cc' = CCReturn(cc)
    /\ UNCHANGED <<ccHist, notClassify>>

ClassifyNext == ClassifyScan \/ ClassifyWrite \/ ClassifyLine \/ ClassifyEof

\* ------------------------------------- SpecLogs: getInstallerLogs

\* The lines the log process writes in SpecLogs: the success line, an
\* error line, an info line and a line without marker.
LogLines ==
    {<<Marker("info"), Space, Bracket, Space, successMsg>>,
     <<Marker("error"), Space, Bracket, Space, OtherText>>,
     <<Marker("info"), Space, Bracket, Space, OtherText>>,
     <<OtherText>>}

NoWrite == <<>>

LogsInit ==
    /\ proc = [pc |-> "notStarted", emitted |-> 0, pending |-> NoWrite, exitOK |-> TRUE]
    /\ stdoutIn = <<>> /\ stderrIn = <<>>
    /\ tOut = CCStart /\ tErr = CCStart
    /\ histOut = <<>> /\ histErr = <<>>
    /\ gPc = "idle" /\ mPc = "start"
    /\ installSuccessfulStdOut = FALSE /\ errStdOut = FALSE
    /\ ret = "none" /\ installerDeleted = FALSE

\* A variant that gives both streams the file of the standard output.
FileNameShared(stream) == "keptn-installer.log"

\* The fileName getInstallerLogs passes to copyAndCapture for each stream.
FileName(stream) ==
    IF stream = "stdout" THEN "keptn-installer.log" ELSE "keptn-installer-err.log"

\* A variant that joins the process right after its own drain.
MainAfterNoRendezvous(pc) ==
    CASE pc = "start"   -> "drain"
      [] pc = "drain"   -> "wait"
      [] pc = "wait"    -> "delete"
      [] OTHER          -> "returned"

\* A variant that receives from cErr before cRes.
MainAfterErrFirst(pc) ==
    CASE pc = "start"   -> "drain"
      [] pc = "drain"   -> "recvErr"
      [] pc = "recvErr" -> "wait"
      [] pc = "wait"    -> "delete"
      [] OTHER          -> "returned"

\* The order of getInstallerLogs' blocking steps.
MainAfter(pc) ==
    CASE pc = "start"   -> "drain"
      [] pc = "drain"   -> "recvRes"
      [] pc = "recvRes" -> "recvErr"
      [] pc = "recvErr" -> "wait"
      [] pc = "wait"    -> "delete"
      [] OTHER          -> "returned"

\* The order of the goroutine's steps.
GoAfter(pc) ==
    CASE pc = "drain"   -> "sendRes"
      [] pc = "sendRes" -> "sendErr"
      [] OTHER          -> "done"

\* execCmd.Start(): on failure getInstallerLogs returns at once; otherwise the
\* channels are made and the goroutine is started.
LogsStart ==
    /\ mPc = "start"
    /\ \E ok \in BOOLEAN :
          IF ok
          THEN /\ proc' = [proc EXCEPT !.pc = "running"]
               /\ gPc' = "drain"
               /\ mPc' = MainAfter("start")
               /\ UNCHANGED ret
          ELSE /\ mPc' = "returned"
               /\ ret' = "startErr"
               /\ UNCHANGED <<proc, gPc>>
    /\ UNCHANGED <<notLogs, stdoutIn, stderrIn, tOut, tErr, histOut, histErr,
                   installSuccessfulStdOut, errStdOut, installerDeleted>>

\* The process decides on its next line and the pipe it goes to.
ProcChoose ==
    /\ proc.pc = "running" /\ proc.pending = NoWrite
    /\ proc.emitted < MaxOut
    /\ \E stream \in {"stdout", "stderr"}, line \in LogLines :
          proc' = [proc EXCEPT !.pending = <<stream, line>>]
    /\ UNCHANGED <<notLogs, stdoutIn, stderrIn, tOut, tErr, histOut, histErr,
                   gPc, mPc, installSuccessfulStdOut, errStdOut, ret, installerDeleted>>

\* The write completes when the pipe has room; until then the process blocks.
ProcWrite ==
    /\ proc.pc = "running" /\ proc.pending # NoWrite
    /\ IF proc.pending[1] = "stdout"
       THEN /\ Len(stdoutIn) < PipeCap
            /\ stdoutIn' = Append(stdoutIn, proc.pending[2])
            /\ UNCHANGED stderrIn
       ELSE /\ Len(stderrIn) < PipeCap
            /\ stderrIn' = Append(stderrIn, proc.pending[2])
            /\ UNCHANGED stdoutIn
    /\ proc' = [proc EXCEPT !.pending = NoWrite, !.emitted = @ + 1]
    /\ UNCHANGED <<notLogs, tOut, tErr, histOut, histErr, gPc, mPc,
                   installSuccessfulStdOut, errStdOut, ret, installerDeleted>>

\* The process exits, which closes the write ends of both pipes.
ProcExit ==
    /\ proc.pc = "running" /\ proc.pending = NoWrite
    /\ \E ok \in BOOLEAN : proc' = [proc EXCEPT !.pc = "exited", !.exitOK = ok]
    /\ UNCHANGED <<notLogs, stdoutIn, stderrIn, tOut, tErr, histOut, histErr,
                   gPc, mPc, installSuccessfulStdOut, errStdOut, ret, installerDeleted>>

ProcStep == ProcChoose \/ ProcWrite \/ ProcExit

\* --- the goroutine: res, err := copyAndCapture(stdoutIn, ..); cRes <- res; cErr <- err

GoPcAfter(t) == IF t.pc = "returned" THEN GoAfter("drain") ELSE "drain"

GoScan ==
    /\ gPc = "drain" /\ tOut.pc = "scan"
    /\ stdoutIn # <<>>
    /\ tOut' = CCScan(tOut, Head(stdoutIn))
    /\ histOut' = Append(histOut, Observe(Head(stdoutIn)))
    /\ stdoutIn' = Tail(stdoutIn)
    /\ UNCHANGED <<notLogs, proc, stderrIn, tErr, histErr, gPc, mPc,
                   installSuccessfulStdOut, errStdOut, ret, installerDeleted>>

GoWrite ==
    /\ gPc = "drain" /\ tOut.pc = "write"
    /\ \E createOK \in BOOLEAN :
          /\ tOut' = CCWrite(tOut, createOK)
          /\ gPc' = GoPcAfter(tOut')
    /\ UNCHANGED <<notLogs, proc, stdoutIn, stderrIn, tErr, histOut, histErr, mPc,
                   installSuccessfulStdOut, errStdOut, ret, installerDeleted>>

GoClassify ==
    /\ gPc = "drain" /\ tOut.pc = "classify"
    /\ tOut' = CCClassify(tOut)
    /\ UNCHANGED <<notLogs, proc, stdoutIn, stderrIn, tErr, histOut, histErr, gPc,
                   mPc, installSuccessfulStdOut, errStdOut, ret, installerDeleted>>

\* The scanner sees the end of the stream once the pipe is empty and closed.
GoEof ==
    /\ gPc = "drain" /\ tOut.pc = "scan"
    /\ stdoutIn = <<>> /\ proc.pc = "exited"
    /\ tOut' = CCReturn(tOut)
    /\ gPc' = GoPcAfter(tOut')
    /\ UNCHANGED <<notLogs, proc, stdoutIn, stderrIn, tErr, histOut, histErr, mPc,
                   installSuccessfulStdOut, errStdOut, ret, installerDeleted>>

\* --- getInstallerLogs: copyAndCapture(stderrIn, ..) on its own thread

MainPcAfter(t) == IF t.pc = "returned" THEN MainAfter("drain") ELSE "drain"

MainScan ==
    /\ mPc = "drain" /\ tErr.pc = "scan"
    /\ stderrIn # <<>>
    /\ tErr' = CCScan(tErr, Head(stderrIn))
    /\ histErr' = Append(histErr, Observe(Head(stderrIn)))
    /\ stderrIn' = Tail(stderrIn)
    /\ UNCHANGED <<notLogs, proc, stdoutIn, tOut, histOut, gPc, mPc,
                   installSuccessfulStdOut, errStdOut, ret, installerDeleted>>

MainWrite ==
    /\ mPc = "drain" /\ tErr.pc = "write"
    /\ \E createOK \in BOOLEAN :
          /\ tErr' = CCWrite(tErr, createOK)
          /\ mPc' = MainPcAfter(tErr')
    /\ UNCHANGED <<notLogs, proc, stdoutIn, stderrIn, tOut, histOut, histErr, gPc,
                   installSuccessfulStdOut, errStdOut, ret, installerDeleted>>

MainClassify ==
    /\ mPc = "drain" /\ tErr.pc = "classify"
    /\ tErr' = CCClassify(tErr)
    /\ UNCHANGED <<notLogs, proc, stdoutIn, stderrIn, tOut, histOut, histErr, gPc,
                   mPc, installSuccessfulStdOut, errStdOut, ret, installerDeleted>>

MainEof ==
    /\ mPc = "drain" /\ tErr.pc = "scan"
    /\ stderrIn = <<>> /\ proc.pc = "exited"
    /\ tErr' = CCReturn(tErr)
    /\ mPc' = MainPcAfter(tErr')
    /\ UNCHANGED <<notLogs, proc, stdoutIn, stderrIn, tOut, histOut, histErr, gPc,
                   installSuccessfulStdOut, errStdOut, ret, installerDeleted>>

\* --- the two unbuffered channels: a send and its receive are one step

\* installSuccessfulStdOut := <-cRes
HandoffRes ==
    /\ gPc = "sendRes" /\ mPc = "recvRes"
    /\ installSuccessfulStdOut' = tOut.res
    /\ gPc' = GoAfter("sendRes")
    /\ mPc' = MainAfter("recvRes")
    /\ UNCHANGED <<notLogs, proc, stdoutIn, stderrIn, tOut, tErr, histOut, histErr,
                   errStdOut, ret, installerDeleted>>

\* The error getInstallerLogs returns after both handoffs, "none" to go on.
DrainError(stdErrErr, stdOutErr) ==
    IF stdErrErr THEN "errStdErr" ELSE IF stdOutErr THEN "errStdOut" ELSE "none"

\* errStdOut := <-cErr, and the two checks of the drain errors that follow it.
HandoffErr ==
    /\ gPc = "sendErr" /\ mPc = "recvErr"
    /\ errStdOut' = tOut.err
    /\ gPc' = GoAfter("sendErr")
    /\ ret' = DrainError(tErr.err, tOut.err)
    /\ mPc' = IF ret' = "none" THEN MainAfter("recvErr") ELSE "returned"
    /\ UNCHANGED <<notLogs, proc, stdoutIn, stderrIn, tOut, tErr, histOut, histErr,
                   installSuccessfulStdOut, installerDeleted>>

\* A variant that fails only when both streams failed.
UnsuccessfulBoth(stdErrRes, stdOutRes) == ~stdErrRes /\ ~stdOutRes

\* The verdict on the two streams' results.
Unsuccessful(stdErrRes, stdOutRes) == ~stdErrRes \/ ~stdOutRes

\* execCmd.Wait() returns when the process has exited; then the verdict.
MainWait ==
    /\ mPc = "wait"
    /\ proc.pc = "exited"
    /\ ret' = IF ~proc.exitOK THEN "waitErr"
              ELSE IF Unsuccessful(tErr.res, installSuccessfulStdOut) THEN "unsuccessful"
              ELSE "none"
    /\ mPc' = IF ret' = "none" THEN MainAfter("wait") ELSE "returned"
    /\ UNCHANGED <<notLogs, proc, stdoutIn, stderrIn, tOut, tErr, histOut, histErr,
                   gPc, installSuccessfulStdOut, errStdOut, installerDeleted>>

\* A variant that drops the error of the delete command.
MainDeleteErrorDropped ==
    /\ mPc = "delete"
    /\ \E ok \in BOOLEAN :
          /\ installerDeleted' = ok
          /\ ret' = "nil"
    /\ mPc' = MainAfter("delete")
    /\ UNCHANGED <<notLogs, proc, stdoutIn, stderrIn, tOut, tErr, histOut, histErr,
                   gPc, installSuccessfulStdOut, errStdOut>>

\* return cmd.Run() of kubectl delete deployment installer
MainDelete ==
    /\ mPc = "delete"
    /\ \E ok \in BOOLEAN :
          /\ installerDeleted' = ok
          /\ ret' = IF ok THEN "nil" ELSE "deleteErr"
    /\ mPc' = MainAfter("delete")
    /\ UNCHANGED <<notLogs, proc, stdoutIn, stderrIn, tOut, tErr, histOut, histErr,
                   gPc, installSuccessfulStdOut, errStdOut>>

GoStep == GoScan \/ GoWrite \/ GoClassify \/ GoEof

MainStep == LogsStart \/ MainScan \/ MainWrite \/ MainClassify \/ MainEof
               \/ MainWait \/ MainDelete

Handoff == HandoffRes \/ HandoffErr

LogsNext == ProcStep \/ GoStep \/ MainStep \/ Handoff

\* ------------------------------- SpecPod: waitForInstallerPod

PodNames == {"installer-a", "installer-b"}

Phases == {"Running", "Pending", "Succeeded"}

Pods == [name : PodNames, phase : Phases]

\* What one kubectl get pods call gives: a failed command ("error"), output
\* that is no JSON object ("badJSON"), or a pod list.
PodResponses ==
    {[kind |-> "error", items |-> <<>>], [kind |-> "badJSON", items |-> <<>>]}
        \cup {[kind |-> "list", items |-> it] :
                 it \in UNION {[1..n -> Pods] : n \in 0..MaxPods}}

NoResponse == [kind |-> "none", items |-> <<>>]

PodInit ==
    /\ wPc = "loop" /\ podName = "" /\ podRunning = FALSE /\ wErr = FALSE
    /\ podResp = NoResponse /\ polls = 0

\* A variant that takes the first pod whatever its phase.
FirstPodIndex(items) == IF Len(items) > 0 THEN 1 ELSE 0

\* The place of the pod that ends the loop, 0 for none: only
\* podStatusArray[0] is looked at.
RunningPodIndex(items) ==
    IF Len(items) > 0 /\ items[1].phase = "Running" THEN 1 ELSE 0

\* A variant in which a failed query only causes another round.
PollOutcomeRetryOnError(resp) ==
    IF resp.kind = "list" /\ RunningPodIndex(resp.items) # 0 THEN "found" ELSE "retry"

\* What one round of the loop does with the answer.
PollOutcome(resp) ==
    IF resp.kind = "error" THEN "abort"
    ELSE IF resp.kind = "list" /\ RunningPodIndex(resp.items) # 0 THEN "found"
    ELSE "retry"

\* One round: sleep, kubectl get pods, look at the answer, test podRunning.
WaitPoll ==
    /\ wPc = "loop"
    /\ polls < MaxPolls
    /\ \E resp \in PodResponses :
          /\ podResp' = resp
          /\ CASE PollOutcome(resp) = "abort" ->
                    /\ wPc' = "returned" /\ wErr' = TRUE
                    /\ podName' = "" /\ UNCHANGED podRunning
               [] PollOutcome(resp) = "found" ->
                    /\ podName' = resp.items[RunningPodIndex(resp.items)].name
                    /\ podRunning' = TRUE
                    /\ wPc' = "returned" /\ UNCHANGED wErr
               [] OTHER -> UNCHANGED <<wPc, podName, podRunning, wErr>>
    /\ polls' = polls + 1
    /\ UNCHANGED notPod

PodNext == WaitPoll

\* ----------------------- SpecEndpoint: setupKeptnAuthAndConfigure

Https == "https://"

\* The text strings.Contains looks for.
XipIo == <<"xip.io">>

DomainTokens == {"x.", "xip.io", "x.notxip.test", ".test", " "}

\* What kubectl get ksvc .. -ojsonpath={.status.domain} prints.
DomainOutputs == UNION {[1..n -> DomainTokens] : n \in 0..MaxDomainLen}

RECURSIVE TrimLeftStr(_)
TrimLeftStr(s) == IF s # <<>> /\ Head(s) = " " THEN TrimLeftStr(Tail(s)) ELSE s

RECURSIVE TrimRightStr(_)
TrimRightStr(s) ==
    IF s # <<>> /\ s[Len(s)] = " " THEN TrimRightStr(SubSeq(s, 1, Len(s) - 1)) ELSE s

\* strings.TrimSpace(string(out))
TrimSpaceStr(s) == TrimRightStr(TrimLeftStr(s))

\* strings.Contains(s, sub)
Contains(s, sub) ==
    \E i \in 1..(Len(s) - Len(sub) + 1) : SubSeq(s, i, i + Len(sub) - 1) = sub

\* strings.HasSuffix(s, sub)
HasSuffix(s, sub) ==
    Len(s) >= Len(sub) /\ SubSeq(s, Len(s) - Len(sub) + 1, Len(s)) = sub

EndpointRejectedUnlessExact(endpoint) == endpoint # XipIo

\* The test that sends the loop round again.
EndpointRejected(endpoint) == endpoint = <<>> \/ ~Contains(endpoint, XipIo)

EndpointInit ==
    /\ sPc = "getSecret" /\ retries = 0 /\ keptnEndpoint = <<>>
    /\ apiEndpointRetrieved = FALSE /\ queryErr = FALSE /\ notices = 0
    /\ attempts = 0 /\ authEndpoint = <<>> /\ sRet = "none"

\* kubectl get secret, json.Unmarshal and the base64 decoding: each may fail.
GetSecret ==
    /\ sPc = "getSecret"
    /\ \E outcome \in {"cmdErr", "jsonErr", "base64Err", "ok"} :
          IF outcome = "ok"
          THEN sPc' = "poll" /\ UNCHANGED sRet
          ELSE sPc' = "returned" /\ sRet' = "secretErr"
    /\ UNCHANGED <<retries, keptnEndpoint, apiEndpointRetrieved, queryErr, notices,
                   attempts, authEndpoint, notEndpoint>>

\* One round of the endpoint loop, with the sleep that ends a failed round.
EndpointPoll ==
    /\ sPc = "poll"
    /\ attempts < MaxAttempts
    /\ \E err \in BOOLEAN, out \in DomainOutputs :
          LET r1       == IF err THEN retries + 1 ELSE 0
              n1       == IF err /\ r1 >= RetryNotice THEN 1 ELSE 0
              endpoint == TrimSpaceStr(out)
              rejected == EndpointRejected(endpoint)
              r2       == IF rejected THEN r1 + 1 ELSE r1
              n2       == IF rejected /\ r2 >= RetryNotice THEN n1 + 1 ELSE n1
          IN  /\ queryErr' = err
              /\ retries' = r2
              /\ notices' = n2
              /\ keptnEndpoint' = IF rejected THEN endpoint ELSE <<Https>> \o endpoint
              /\ apiEndpointRetrieved' = ~rejected
              /\ sPc' = IF rejected THEN "poll" ELSE "authenticate"
    /\ attempts' = attempts + 1
    /\ UNCHANGED <<authEndpoint, sRet, notEndpoint>>

\* A variant that notes the error of authenticate and goes on to configure.
AuthenticateThenConfigure ==
    /\ sPc = "authenticate"
    /\ authEndpoint' = keptnEndpoint
    /\ \E ok \in BOOLEAN :
          /\ sPc' = "configure"
          /\ sRet' = IF ok THEN sRet ELSE "authErr"
    /\ UNCHANGED <<retries, keptnEndpoint, apiEndpointRetrieved, queryErr, notices,
                   attempts, notEndpoint>>

\* authenticate(keptnEndpoint, string(apiToken))
Authenticate ==
    /\ sPc = "authenticate"
    /\ authEndpoint' = keptnEndpoint
    /\ \E ok \in BOOLEAN :
          IF ok
          THEN sPc' = "configure" /\ UNCHANGED sRet
          ELSE sPc' = "returned" /\ sRet' = "authErr"
    /\ UNCHANGED <<retries, keptnEndpoint, apiEndpointRetrieved, queryErr, notices,
                   attempts, notEndpoint>>

\* configure(creds)
Configure ==
    /\ sPc = "configure"
    /\ \E ok \in BOOLEAN : sRet' = IF ok THEN "nil" ELSE "configErr"
    /\ sPc' = "returned"
    /\ UNCHANGED <<retries, keptnEndpoint, apiEndpointRetrieved, queryErr, notices,
                   attempts, authEndpoint, notEndpoint>>

EndpointNext == GetSecret \/ EndpointPoll \/ Authenticate \/ Configure

\* ------------------------------------------ SpecInstall: doInstallation

\* The calls of doInstallation in the order of its text.
StageOrder ==
    <<"keptnDir", "download", "gcloudUser", "clusterCIDR", "template",
      "applyRbac", "applyInstaller", "waitPod", "logs", "bootstrap", "remove">>

StageIndex(stage) == CHOOSE i \in DOMAIN StageOrder : StageOrder[i] = stage

\* What each call may come back with; "ok" and "nil" are a nil error.
Outcomes(stage) ==
    CASE stage = "download"    -> {"getErr", "createErr", "copyErr", "ok"}
      [] stage = "clusterCIDR" -> {"cmdErr", "yamlErr", "panic", "ok"}
      [] stage = "template"    -> {"readErr", "writeErr", "ok"}
      [] OTHER                 -> {"err", "ok"}

\* A variant that takes an unsuccessful verdict for a nil error.
SucceededOrUnsuccessful(outcome) == outcome \in {"ok", "nil", "unsuccessful"}

\* err == nil
Succeeded(outcome) == outcome \in {"ok", "nil"}

\* A variant that deploys the installer whatever the RBAC apply said.
StepToIgnoringRbac(stage, outcome) ==
    IF outcome = "panic" THEN "panicked"
    ELSE IF ~Succeeded(outcome) /\ stage # "applyRbac" THEN "returned"
    ELSE IF stage = "remove" THEN "returned"
    ELSE StageOrder[StageIndex(stage) + 1]

\* Where doInstallation goes after a call: on to the next one, or out.
StepTo(stage, outcome) ==
    IF outcome = "panic" THEN "panicked"
    ELSE IF ~Succeeded(outcome) THEN "returned"
    ELSE IF stage = "remove" THEN "returned"
    ELSE StageOrder[StageIndex(stage) + 1]

\* What doInstallation has returned after a call.
ReturnAfter(stage, outcome) ==
    IF outcome = "panic" THEN "none"
    ELSE IF ~Succeeded(outcome) THEN "err"
    ELSE IF stage = "remove" THEN "nil"
    ELSE "none"

\* A variant that clears the file away when a later call fails.
FileAfterCleanup(stage, outcome, present) ==
    CASE stage = "download" -> IF outcome \in {"copyErr", "ok"} THEN TRUE ELSE present
      [] stage = "remove"   -> IF outcome = "ok" THEN FALSE ELSE present
      [] OTHER              -> IF Succeeded(outcome) THEN present ELSE FALSE

\* The file at installerPath after a call: os.Create makes it, os.Remove
\* takes it away, no other call touches its existence.
FileAfter(stage, outcome, present) ==
    CASE stage = "download" -> IF outcome \in {"copyErr", "ok"} THEN TRUE ELSE present
      [] stage = "remove"   -> IF outcome = "ok" THEN FALSE ELSE present
      [] OTHER              -> present

InstallInit ==
    /\ iPc = "keptnDir" /\ iRet = "none" /\ filePresent = FALSE
    /\ done = <<>> /\ installerPodName = ""

\* The bookkeeping every call of doInstallation shares.
Called(stage, outcome) ==
    /\ iPc = stage
    /\ done' = Append(done, [stage |-> stage, outcome |-> outcome])
    /\ iPc' = StepTo(stage, outcome)
    /\ iRet' = ReturnAfter(stage, outcome)

\* keptnutils.GetKeptnDirectory(); from here installerPath is known, and a
\* file may stand there from an earlier run.
GetKeptnDirectory ==
    /\ \E outcome \in Outcomes("keptnDir") : Called("keptnDir", outcome)
    /\ filePresent' \in BOOLEAN
    /\ UNCHANGED <<installerPodName, notInstall>>

\* A call that runs to its end in one step.
Direct(stage, outcome) ==
    /\ Called(stage, outcome)
    /\ filePresent' = FileAfter(stage, outcome, filePresent)
    /\ UNCHANGED <<installerPodName, notInstall>>

\* downloadFile(installerPath, getInstallerURL())
DownloadFile ==
    /\ iPc = "download"
    /\ \E outcome \in Outcomes("download") : Direct("download", outcome)

\* getGcloudUser()
GetGcloudUser ==
    /\ iPc = "gcloudUser"
    /\ \E outcome \in Outcomes("gcloudUser") : Direct("gcloudUser", outcome)

\* getGcloudClusterIPCIDR(creds.ClusterName, creds.ClusterZone)
GetGcloudClusterIPCIDR ==
    /\ iPc = "clusterCIDR"
    /\ \E outcome \in Outcomes("clusterCIDR") : Direct("clusterCIDR", outcome)

\* setDeploymentFileKey(installerPath, ...)
SetDeploymentFileKey ==
    /\ iPc = "template"
    /\ \E outcome \in Outcomes("template") : Direct("template", outcome)

\* kubectl apply -f getRbacURL()
ApplyRbac ==
    /\ iPc = "applyRbac"
    /\ \E outcome \in Outcomes("applyRbac") : Direct("applyRbac", outcome)

\* kubectl apply -f installerPath
ApplyInstaller ==
    /\ iPc = "applyInstaller"
    /\ \E outcome \in Outcomes("applyInstaller") : Direct("applyInstaller", outcome)

\* return os.Remove(installerPath)
RemoveInstaller ==
    /\ iPc = "remove"
    /\ \E outcome \in Outcomes("remove") : Direct("remove", outcome)

\* waitForInstallerPod returns: its locals are gone, its results stay.
WaitForInstallerPodReturns ==
    /\ wPc = "returned"
    /\ Called("waitPod", IF wErr THEN "err" ELSE "ok")
    /\ installerPodName' = podName
    /\ filePresent' = FileAfter("waitPod", IF wErr THEN "err" ELSE "ok", filePresent)
    /\ wPc' = "loop" /\ podName' = "" /\ podRunning' = FALSE /\ wErr' = FALSE
    /\ podResp' = NoResponse /\ polls' = 0
    /\ UNCHANGED <<classifyVars, logsVars, endpointVars, promptVars, preRunVars,
                   credsVars, templateVars>>

\* getInstallerLogs returns; what it did to the cluster stays done.
GetInstallerLogsReturns ==
    /\ mPc = "returned"
    /\ Called("logs", ret)
    /\ filePresent' = FileAfter("logs", ret, filePresent)
    /\ proc' = [pc |-> "notStarted", emitted |-> 0, pending |-> NoWrite, exitOK |-> TRUE]
    /\ stdoutIn' = <<>> /\ stderrIn' = <<>>
    /\ tOut' = CCStart /\ tErr' = CCStart
    /\ histOut' = <<>> /\ histErr' = <<>>
    /\ gPc' = "idle" /\ mPc' = "start"
    /\ installSuccessfulStdOut' = FALSE /\ errStdOut' = FALSE
    /\ ret' = "none"
    /\ UNCHANGED <<installerDeleted, installerPodName, classifyVars, podVars, endpointVars,
                   promptVars, preRunVars, credsVars, templateVars>>

\* setupKeptnAuthAndConfigure returns.
SetupKeptnAuthAndConfigureReturns ==
    /\ sPc = "returned"
    /\ Called("bootstrap", sRet)
    /\ filePresent' = FileAfter("bootstrap", sRet, filePresent)
    /\ sPc' = "getSecret" /\ retries' = 0 /\ keptnEndpoint' = <<>>
    /\ apiEndpointRetrieved' = FALSE /\ queryErr' = FALSE /\ notices' = 0
    /\ attempts' = 0 /\ authEndpoint' = <<>> /\ sRet' = "none"
    /\ UNCHANGED <<installerPodName, classifyVars, logsVars, podVars, promptVars,
                   preRunVars, credsVars, templateVars>>

\* The three calls that run as machines of their own.
InWaitForInstallerPod == iPc = "waitPod" /\ PodNext

InGetInstallerLogs == iPc = "logs" /\ LogsNext

InSetupKeptnAuthAndConfigure == iPc = "bootstrap" /\ EndpointNext

InstallNext ==
    \/ GetKeptnDirectory \/ DownloadFile \/ GetGcloudUser \/ GetGcloudClusterIPCIDR
    \/ SetDeploymentFileKey \/ ApplyRbac \/ ApplyInstaller
    \/ InWaitForInstallerPod \/ WaitForInstallerPodReturns
    \/ InGetInstallerLogs \/ GetInstallerLogsReturns
    \/ InSetupKeptnAuthAndConfigure \/ SetupKeptnAuthAndConfigureReturns
    \/ RemoveInstaller

\* ------------------------------------------- SpecPrompt: readUserInput

\* Text is a sequence of characters; these stand for the classes the
\* patterns tell apart.
LowerAlnum == {"a", "b", "0"}

Letters == {"a", "b"}

White == {" ", "\t", "\n", "\r"}

\* The length the token pattern asks for.
TokenLen == 40

\* strings.Replace(s, "\r\n", "\n", -1)
RECURSIVE ReplaceCRLF(_)
ReplaceCRLF(s) ==
    IF s = <<>> THEN <<>>
    ELSE IF Len(s) >= 2 /\ s[1] = "\r" /\ s[2] = "\n"
         THEN <<"\n">> \o ReplaceCRLF(SubSeq(s, 3, Len(s)))
         ELSE <<s[1]>> \o ReplaceCRLF(Tail(s))

\* strings.TrimSpace on characters
RECURSIVE TrimWhite(_)
TrimWhite(s) ==
    IF s = <<>> THEN s
    ELSE IF Head(s) \in White THEN TrimWhite(Tail(s))
    ELSE IF s[Len(s)] \in White THEN TrimWhite(SubSeq(s, 1, Len(s) - 1))
    ELSE s

AllIn(s, class) == \A i \in DOMAIN s : s[i] \in class

\* The number of characters of the class that s starts with.
RECURSIVE LeadingRun(_, _)
LeadingRun(s, class) ==
    IF s # <<>> /\ Head(s) \in class THEN 1 + LeadingRun(Tail(s), class) ELSE 0

\* ^(([a-z0-9]+-)*[a-z0-9]+)$
RECURSIVE MatchesName(_)
MatchesName(s) ==
    LET k == LeadingRun(s, LowerAlnum)
    IN  /\ k >= 1
        /\ \/ k = Len(s)
           \/ s[k + 1] = "-" /\ MatchesName(SubSeq(s, k + 2, Len(s)))

\* ^[a-z0-9._%+\-]+@[a-z0-9.\-]+\.[a-z]{2,4}$
MatchesEmail(s) ==
    \E i, j \in DOMAIN s :
        /\ i >= 2 /\ s[i] = "@"
        /\ AllIn(SubSeq(s, 1, i - 1), LowerAlnum \cup {".", "_", "%", "+", "-"})
        /\ j >= i + 2 /\ s[j] = "."
        /\ AllIn(SubSeq(s, i + 1, j - 1), LowerAlnum \cup {".", "-"})
        /\ Len(s) - j \in 2..4
        /\ AllIn(SubSeq(s, j + 1, Len(s)), Letters)

\* ^[a-z0-9]{40}$
MatchesToken(s) == Len(s) = TokenLen /\ AllIn(s, LowerAlnum)

RegexKinds == {"name", "email", "token"}

\* re.MatchString(userInput) for the pattern of the field
Matches(kind, s) ==
    CASE kind = "name"  -> MatchesName(s)
      [] kind = "email" -> MatchesEmail(s)
      [] kind = "token" -> MatchesToken(s)

\* A variant that stores whatever was typed.
AfterInputUnchecked(v, in, kind) ==
    IF in # <<>> \/ v = <<>>
    THEN [value |-> in, keepAsking |-> FALSE]
    ELSE [value |-> v, keepAsking |-> FALSE]

\* One round of the loop of readUserInput on the line `in`, read after
\* Replace and TrimSpace, with *value = v.
AfterInput(v, in, kind) ==
    IF in # <<>> \/ v = <<>>
    THEN IF ~Matches(kind, in)
         THEN [value |-> v, keepAsking |-> TRUE]
         ELSE [value |-> in, keepAsking |-> FALSE]
    ELSE [value |-> v, keepAsking |-> FALSE]

Repeat(c, n) == [i \in 1..n |-> c]

\* A value that matches the pattern of the kind.
Example(kind) ==
    CASE kind = "name"  -> <<"b">>
      [] kind = "email" -> <<"b", "@", "a", ".", "a", "b">>
      [] kind = "token" -> Repeat("b", TokenLen)

InputChars == {"a", "-", "A", " "}

\* What the operator may type before the end of the line.
Bodies ==
    UNION {[1..n -> InputChars] : n \in 0..MaxInputLen}
        \cup {<<"a", "-", "b", "0">>, <<"a", "-", "-", "b">>,
              <<"a", ".", "b", "@", "b", "-", "a", ".", "a", "b">>,
              <<"a", "@", "b", ".", "a">>, <<"a", "@", "b", ".", "a", "b", "a", "b", "a">>,
              <<"a", "@", "b", ".", "a", "0">>, <<"@", "b", ".", "a", "b">>,
              Repeat("a", TokenLen), Repeat("a", TokenLen - 1), Repeat("a", TokenLen + 1),
              <<"A">> \o Repeat("a", TokenLen - 1)}

\* reader.ReadString('\n'): a line with its end, or what was left at EOF.
LineEnds == {<<"\n">>, <<"\r", "\n">>, <<>>}

RawInputs == {b \o e : b \in Bodies, e \in LineEnds}

\* What *value may hold when readUserInput is called.
StartValues(kind) == {<<>>, <<"A">>, Example(kind)}

PromptInit ==
    /\ rPc = "idle" /\ regex = "name" /\ value = <<>> /\ valueBefore = <<>>
    /\ userInput = <<>> /\ reads = 0

\* readUserInput(&field, pattern, ...) is called.
ReadUserInputCalled ==
    /\ rPc = "idle"
    /\ \E kind \in RegexKinds :
          \E v \in StartValues(kind) :
              /\ regex' = kind
              /\ value' = v /\ valueBefore' = v
    /\ rPc' = "asking"
    /\ UNCHANGED <<userInput, reads, notPrompt>>

\* One round of the loop: prompt, read a line, decide.
ReadUserInputRound ==
    /\ rPc = "asking"
    /\ reads < MaxReads
    /\ \E raw \in RawInputs :
          LET in == TrimWhite(ReplaceCRLF(raw))
              r  == AfterInput(value, in, regex)
          IN  /\ userInput' = in
              /\ valueBefore' = value
              /\ value' = r.value
              /\ rPc' = IF r.keepAsking THEN "asking" ELSE "done"
    /\ reads' = reads + 1
    /\ UNCHANGED <<regex, notPrompt>>

PromptNext == ReadUserInputCalled \/ ReadUserInputRound

\* ------------------------------ SpecPreRun: installCmd.PreRunE and RunE

\* The fields of installCredentials.
Fields ==
    {"ClusterName", "ClusterZone", "GkeProject", "GithubOrg", "GithubUserName",
     "GithubUserEmail", "GithubPersonalAccessToken"}

\* The pattern the prompt of the field applies.
FieldKind(f) ==
    CASE f = "GithubUserEmail"           -> "email"
      [] f = "GithubPersonalAccessToken" -> "token"
      [] OTHER                           -> "name"

\* installCredentials{}
ZeroCreds == [f \in Fields |-> <<>>]

\* What a credential file may hold for a field: nothing, text its pattern
\* does not match, text it matches.
FileValues(f) == {<<>>, <<"A">>, Example(FieldKind(f))}

FileRecords ==
    {r \in [Fields -> UNION {FileValues(f) : f \in Fields}] :
        \A f \in Fields : r[f] \in FileValues(f)}

\* What may stand at the path: no readable file, text that is not JSON, a
\* JSON record.
ConfigFiles ==
    {[kind |-> "unreadable", rec |-> ZeroCreds], [kind |-> "notJSON", rec |-> ZeroCreds]}
        \cup {[kind |-> "json", rec |-> r] : r \in FileRecords}

\* The flag value the model gives for --creds.
CredsPath == "creds.json"

\* A variant that forgets the organization as the code forgets the project.
IncompleteButForOrg(c) ==
    \/ c["ClusterName"] = <<>> \/ c["ClusterZone"] = <<>>
    \/ c["GithubPersonalAccessToken"] = <<>> \/ c["GithubUserEmail"] = <<>>
    \/ c["GithubUserName"] = <<>>

\* The completeness test of PreRunE.
Incomplete(c) ==
    \/ c["ClusterName"] = <<>> \/ c["ClusterZone"] = <<>>
    \/ c["GithubPersonalAccessToken"] = <<>> \/ c["GithubUserEmail"] = <<>>
    \/ c["GithubOrg"] = <<>> \/ c["GithubUserName"] = <<>>

\* errors.New("Incomplete credential file " + *configFilePath)
IncompleteError(path) == <<"Incomplete credential file ", path>>

\* parseConfig on a readable file: the error of json.Unmarshal is dropped.
ParseConfig(file) == IF file.kind = "json" THEN file.rec ELSE ZeroCreds

NoFile == [kind |-> "unreadable", rec |-> ZeroCreds]

PreRunInit ==
    /\ pPc = "invoked" /\ pErr = <<>> /\ configFilePath = "" /\ mocking = FALSE
    /\ configFile = NoFile /\ pCreds = ZeroCreds /\ calls = <<>>

\* PreRunE or RunE returns the error.
Fails(err) == pPc' = "failed" /\ pErr' = err

\* keptn install is run, with or without --creds.
Invoke ==
    /\ pPc = "invoked"
    /\ \/ configFilePath' = "" /\ configFile' = NoFile
       \/ configFilePath' = CredsPath /\ configFile' \in ConfigFiles
    /\ mocking' \in BOOLEAN
    /\ pPc' = "checkInstaller"
    /\ UNCHANGED <<pErr, pCreds, calls, notPreRun>>

\* checkInstallerAvailablity(): two HTTP GETs
CheckInstallerAvailablity ==
    /\ pPc = "checkInstaller"
    /\ calls' = Append(calls, "http.Get")
    /\ \E outcome \in {"err", "notOK", "ok"} :
          IF outcome = "ok"
          THEN pPc' = "gcloudUser" /\ UNCHANGED pErr
          ELSE Fails(<<"Installers not found under:", "installerURL", "rbacURL">>)
    /\ UNCHANGED <<configFilePath, mocking, configFile, pCreds, notPreRun>>

\* getGcloudUser()
PreRunGcloudUser ==
    /\ pPc = "gcloudUser"
    /\ calls' = Append(calls, "gcloud config")
    /\ \E ok \in BOOLEAN :
          IF ok
          THEN pPc' = "kubectl" /\ UNCHANGED pErr
          ELSE Fails(<<"Please configure your gcloud: ", "cmdErr">>)
    /\ UNCHANGED <<configFilePath, mocking, configFile, pCreds, notPreRun>>

\* isKubectlAvailable(), then the test of the flag
IsKubectlAvailable ==
    /\ pPc = "kubectl"
    /\ calls' = Append(calls, "kubectl")
    /\ \E ok \in BOOLEAN :
          IF ~ok
          THEN Fails(<<"keptn requires 'kubectl' but it is not available.">>)
          ELSE /\ pPc' = IF configFilePath # "" THEN "parseConfig" ELSE "runE"
               /\ UNCHANGED pErr
    /\ UNCHANGED <<configFilePath, mocking, configFile, pCreds, notPreRun>>

\* parseConfig(*configFilePath) and the completeness test
VerifyConfig ==
    /\ pPc = "parseConfig"
    /\ IF configFile.kind = "unreadable"
       THEN Fails(<<"readFileErr">>) /\ UNCHANGED pCreds
       ELSE /\ pCreds' = ParseConfig(configFile)
            /\ IF Incomplete(pCreds')
               THEN Fails(IncompleteError(configFilePath))
               ELSE pPc' = "authenticate" /\ UNCHANGED pErr
    /\ calls' = Append(calls, "utils.ReadFile")
    /\ UNCHANGED <<configFilePath, mocking, configFile, notPreRun>>

\* authenticateAtCluster(creds): false comes only with an error
PreRunAuthenticate ==
    /\ pPc = "authenticate"
    /\ calls' = Append(calls, "authenticateAtCluster")
    /\ \E ok \in BOOLEAN :
          IF ok
          THEN pPc' = "tokenScope" /\ UNCHANGED pErr
          ELSE Fails(<<"cmdErr">>)
    /\ UNCHANGED <<configFilePath, mocking, configFile, pCreds, notPreRun>>

\* utils.HasTokenRepoScope(creds.GithubPersonalAccessToken)
PreRunTokenScope ==
    /\ pPc = "tokenScope"
    /\ calls' = Append(calls, "HasTokenRepoScope")
    /\ \E outcome \in {"err", "invalid", "valid"} :
          CASE outcome = "valid"   -> pPc' = "org" /\ UNCHANGED pErr
            [] outcome = "invalid" ->
                 Fails(<<"Personal access token requies at least a 'repo'-scope">>)
            [] OTHER               -> Fails(<<"httpErr">>)
    /\ UNCHANGED <<configFilePath, mocking, configFile, pCreds, notPreRun>>

\* utils.IsOrgExisting(creds.GithubPersonalAccessToken, creds.GithubOrg)
PreRunOrg ==
    /\ pPc = "org"
    /\ calls' = Append(calls, "IsOrgExisting")
    /\ \E outcome \in {"err", "invalid", "valid"} :
          CASE outcome = "valid"   -> pPc' = "runE" /\ UNCHANGED pErr
            [] outcome = "invalid" ->
                 Fails(<<"Provided organization ", "creds.GithubOrg", " does not exist.">>)
            [] OTHER               -> Fails(<<"httpErr">>)
    /\ UNCHANGED <<configFilePath, mocking, configFile, pCreds, notPreRun>>

\* RunE up to the call of doInstallation or of getInstallCredentials
RunE ==
    /\ pPc = "runE"
    /\ IF mocking
       THEN pPc' = "skipped" /\ UNCHANGED <<pErr, pCreds, calls>>
       ELSE IF configFilePath = ""
       THEN pPc' = "getInstallCredentials" /\ UNCHANGED <<pErr, pCreds, calls>>
       ELSE \/ /\ pCreds' = ParseConfig(configFile)
               /\ pPc' = "doInstallation"
               /\ calls' = calls \o <<"utils.ReadFile", "doInstallation">>
               /\ UNCHANGED pErr
            \/ /\ Fails(<<"readFileErr">>)
               /\ calls' = Append(calls, "utils.ReadFile")
               /\ UNCHANGED pCreds
    /\ UNCHANGED <<configFilePath, mocking, configFile, notPreRun>>

PreRunNext ==
    \/ Invoke \/ CheckInstallerAvailablity \/ PreRunGcloudUser \/ IsKubectlAvailable
    \/ VerifyConfig \/ PreRunAuthenticate \/ PreRunTokenScope \/ PreRunOrg \/ RunE

\* ---------------------------------- SpecCreds: getInstallCredentials

\* A second value that matches the pattern of the kind.
Other(kind) ==
    CASE kind = "name"  -> <<"a">>
      [] kind = "email" -> <<"a", "@", "b", ".", "a", "b">>
      [] kind = "token" -> Repeat("a", TokenLen)

\* The lines the operator may type at the prompt of a field.
CredLines(f) ==
    {v \o <<"\n">> : v \in {<<>>, <<"A">>, Example(FieldKind(f)), Other(FieldKind(f))}}
        \cup {<<" ">> \o Other(FieldKind(f)) \o <<"\r", "\n">>}

ClusterFields == {"ClusterName", "ClusterZone", "GkeProject"}

\* What credentialmanager.GetInstallCreds and json.Unmarshal may leave in
\* *creds: nothing, or a record kept from an earlier run.
CachedRecords ==
    {r \in [Fields -> {<<>>} \cup {Example(k) : k \in RegexKinds}] :
        /\ \A f \in Fields : r[f] \in {<<>>, Example(FieldKind(f))}
        /\ \A f, g \in Fields \ ClusterFields : (r[f] = <<>>) = (r[g] = <<>>)}

\* strings.HasPrefix
HasPrefix(s, prefix) ==
    Len(s) >= Len(prefix) /\ SubSeq(s, 1, Len(prefix)) = prefix

\* strings.Split(s, sep) for a separator of one character
RECURSIVE Split(_, _)
Split(s, sep) ==
    IF \E i \in 1..Len(s) : s[i] = sep
    THEN LET i == CHOOSE k \in 1..Len(s) :
                      s[k] = sep /\ \A j \in 1..(k - 1) : s[j] # sep
         IN  <<SubSeq(s, 1, i - 1)>> \o Split(SubSeq(s, i + 1, Len(s)), sep)
    ELSE <<s>>

\* The parts of a context name, written with "_" between them.
RECURSIVE JoinContext(_)
JoinContext(parts) ==
    IF Len(parts) = 1 THEN parts[1]
    ELSE parts[1] \o <<"_">> \o JoinContext(Tail(parts))

\* What `kubectl config current-context` may end with: an error or not, and
\* the text it wrote to its standard output.
ContextOutputs ==
    {[err |-> e, out |-> JoinContext(<<first>> \o rest) \o end] :
        e \in BOOLEAN,
        first \in {<<"g", "k", "e">>, <<"a">>},
        rest \in UNION {[1..n -> {<<"a">>, <<"b">>}] : n \in 0..(MaxContextParts - 1)},
        end \in {<<"\n">>, <<"\r", "\n">>}}

NoClusterInfo == [f \in ClusterFields |-> <<>>]

\* getClusterInfo: name, zone and project are the fourth, third and second
\* part of a context name that starts with "gke".
GetClusterInfo(cmd) ==
    LET clusterInfo == TrimWhite(ReplaceCRLF(cmd.out))
        clusterInfoArray == Split(clusterInfo, "_")
    IN  IF cmd.err THEN NoClusterInfo
        ELSE IF ~HasPrefix(clusterInfo, <<"g", "k", "e">>) THEN NoClusterInfo
        ELSE IF Len(clusterInfoArray) < 4 THEN NoClusterInfo
        ELSE [f \in ClusterFields |->
                CASE f = "ClusterName" -> clusterInfoArray[4]
                  [] f = "ClusterZone" -> clusterInfoArray[3]
                  [] f = "GkeProject"  -> clusterInfoArray[2]]

\* creds.ClusterName == "" || creds.ClusterZone == "" || creds.GkeProject == ""
AnyClusterFieldEmpty(c) == \E f \in ClusterFields : c[f] = <<>>

\* A variant that fills in only the identifiers that are empty.
InferredWhereEmpty(c, info) ==
    [f \in Fields |-> IF f \in ClusterFields /\ c[f] = <<>> THEN info[f] ELSE c[f]]

\* The first lines of connectToCluster.
Inferred(c, info) ==
    IF AnyClusterFieldEmpty(c)
    THEN [f \in Fields |-> IF f \in ClusterFields THEN info[f] ELSE c[f]]
    ELSE c

\* A variant that leaves the loop after the first attempt.
AfterAuthenticateOnce(connectionSuccessful) == "GithubUserName"

\* for !connectionSuccessful { .. }: the loop is left after a success and
\* starts again at the first prompt after a failure.
AfterAuthenticate(connectionSuccessful) ==
    IF connectionSuccessful THEN "GithubUserName" ELSE "ClusterName"

\* Where getInstallCredentials goes when the prompt of a field has ended.
AfterPrompt(f) ==
    CASE f = "ClusterName"               -> "ClusterZone"
      [] f = "ClusterZone"               -> "GkeProject"
      [] f = "GkeProject"                -> "authenticate"
      [] f = "GithubUserName"            -> "GithubUserEmail"
      [] f = "GithubUserEmail"           -> "GithubPersonalAccessToken"
      [] f = "GithubPersonalAccessToken" -> "tokenScope"
      [] f = "GithubOrg"                 -> "orgExists"

\* A variant that clears both validated fields on either rejection.
AfterRejectionOfBoth(c, f) ==
    [c EXCEPT !["GithubPersonalAccessToken"] = <<>>, !["GithubOrg"] = <<>>]

\* creds.GithubPersonalAccessToken = "" and creds.GithubOrg = ""
AfterRejection(c, f) == [c EXCEPT ![f] = <<>>]

\* A variant that takes every answer but "n" for a yes.
AffirmativeUnlessNo(in) == in # <<"n">>

\* in == "y" || in == "yes"
Affirmative(in) == in = <<"y">> \/ in = <<"y", "e", "s">>

\* What the operator may answer to "Is this all correct? (y/n)".
AnswerLines ==
    {b \o e : b \in UNION {[1..n -> {"y", "e", "s", "n"}] : n \in 0..MaxAnswerLen}
                       \cup {<<"Y">>, <<" ", "y", " ">>, <<"y", "e", "s", "\t">>},
              e \in {<<"\n">>, <<"\r", "\n">>}}

CredsInit ==
    /\ aPc = "load" /\ creds = ZeroCreds /\ aRet = "none"
    /\ cacheWrites = 0 /\ cached = ZeroCreds
    /\ event = "none" /\ credsBefore = ZeroCreds /\ answer = <<>>

Note(e, before, in) == event' = e /\ credsBefore' = before /\ answer' = in

NoNote == Note("none", ZeroCreds, <<>>)

\* credentialmanager.GetInstallCreds() and json.Unmarshal, errors ignored
LoadCached ==
    /\ aPc = "load"
    /\ creds' \in CachedRecords
    /\ aPc' = "connect"
    /\ NoNote
    /\ UNCHANGED <<aRet, cacheWrites, cached, notCreds>>

\* connectToCluster up to its loop
ConnectToCluster ==
    /\ aPc = "connect"
    /\ \E cmd \in ContextOutputs :
          /\ creds' = Inferred(creds, GetClusterInfo(cmd))
          /\ IF AnyClusterFieldEmpty(creds)
             THEN Note(IF cmd.err THEN "contextErr" ELSE "context", creds, cmd.out)
             ELSE Note("entered", creds, <<>>)
    /\ aPc' = "ClusterName"
    /\ UNCHANGED <<aRet, cacheWrites, cached, notCreds>>

\* One round of readUserInput for the field f.
Prompt(f) ==
    /\ \E raw \in CredLines(f) :
          LET r == AfterInput(creds[f], TrimWhite(ReplaceCRLF(raw)), FieldKind(f))
          IN  /\ creds' = [creds EXCEPT ![f] = r.value]
              /\ aPc' = IF r.keepAsking THEN f ELSE AfterPrompt(f)
    /\ NoNote
    /\ UNCHANGED <<aRet, cacheWrites, cached, notCreds>>

ReadClusterName == aPc = "ClusterName" /\ Prompt("ClusterName")

ReadClusterZone == aPc = "ClusterZone" /\ Prompt("ClusterZone")

ReadGkeProject == aPc = "GkeProject" /\ Prompt("GkeProject")

ReadGithubUserName == aPc = "GithubUserName" /\ Prompt("GithubUserName")

ReadGithubUserEmail == aPc = "GithubUserEmail" /\ Prompt("GithubUserEmail")

ReadGithubPersonalAccessToken ==
    aPc = "GithubPersonalAccessToken" /\ Prompt("GithubPersonalAccessToken")

ReadGithubOrg == aPc = "GithubOrg" /\ Prompt("GithubOrg")

\* connectionSuccessful, _ = authenticateAtCluster(*creds)
ConnectAuthenticate ==
    /\ aPc = "authenticate"
    /\ \E connectionSuccessful \in BOOLEAN :
          /\ aPc' = AfterAuthenticate(connectionSuccessful)
          /\ Note(IF connectionSuccessful THEN "connected" ELSE "authFailed",
                  creds, <<>>)
    /\ UNCHANGED <<creds, aRet, cacheWrites, cached, notCreds>>

\* utils.HasTokenRepoScope and what follows it
CheckTokenScope ==
    /\ aPc = "tokenScope"
    /\ \E outcome \in {"err", "invalid", "valid"} :
          CASE outcome = "err" ->
                 /\ aPc' = "returned" /\ aRet' = "scopeErr"
                 /\ NoNote /\ UNCHANGED creds
            [] outcome = "invalid" ->
                 /\ creds' = AfterRejection(creds, "GithubPersonalAccessToken")
                 /\ aPc' = "GithubPersonalAccessToken"
                 /\ Note("tokenRejected", creds, <<>>) /\ UNCHANGED aRet
            [] OTHER ->
                 /\ aPc' = "GithubOrg"
                 /\ NoNote /\ UNCHANGED <<creds, aRet>>
    /\ UNCHANGED <<cacheWrites, cached, notCreds>>

\* utils.IsOrgExisting and what follows it
CheckOrgExisting ==
    /\ aPc = "orgExists"
    /\ \E outcome \in {"err", "invalid", "valid"} :
          CASE outcome = "err" ->
                 /\ aPc' = "returned" /\ aRet' = "orgErr"
                 /\ NoNote /\ UNCHANGED creds
            [] outcome = "invalid" ->
                 /\ creds' = AfterRejection(creds, "GithubOrg")
                 /\ aPc' = "GithubOrg"
                 /\ Note("orgRejected", creds, <<>>) /\ UNCHANGED aRet
            [] OTHER ->
                 /\ aPc' = "confirm"
                 /\ NoNote /\ UNCHANGED <<creds, aRet>>
    /\ UNCHANGED <<cacheWrites, cached, notCreds>>

\* The record is echoed and the answer read.
Confirm ==
    /\ aPc = "confirm"
    /\ \/ /\ aPc' = "returned" /\ aRet' = "readErr"
          /\ NoNote
       \/ \E raw \in AnswerLines :
             LET in == TrimWhite(raw)
             IN  /\ aPc' = IF Affirmative(in) THEN "save" ELSE "connect"
                 /\ Note(IF Affirmative(in) THEN "confirmed" ELSE "declined", creds, in)
                 /\ UNCHANGED aRet
    /\ UNCHANGED <<creds, cacheWrites, cached, notCreds>>

\* return credentialmanager.SetInstallCreds(newCredsStr)
SetInstallCreds ==
    /\ aPc = "save"
    /\ cacheWrites' = cacheWrites + 1
    /\ cached' = creds
    /\ \E ok \in BOOLEAN : aRet' = IF ok THEN "nil" ELSE "cacheErr"
    /\ aPc' = "returned"
    /\ UNCHANGED <<creds, event, credsBefore, answer, notCreds>>

CredsNext ==
    \/ LoadCached \/ ConnectToCluster
    \/ ReadClusterName \/ ReadClusterZone \/ ReadGkeProject \/ ConnectAuthenticate
    \/ ReadGithubUserName \/ ReadGithubUserEmail
    \/ ReadGithubPersonalAccessToken \/ CheckTokenScope
    \/ ReadGithubOrg \/ CheckOrgExisting
    \/ Confirm \/ SetInstallCreds

\* ---------------------------------- SpecTemplate: setDeploymentFileKey

\* A text is a sequence of words: the key prefix "value: ", a placeholder,
\* a line end, or a word of lower-case letters. No word is the beginning of
\* another, so a literal match of "value: " and a placeholder in the text is
\* a match of the two words.
KeyPrefix == "value: "

\* The placeholders of doInstallation, in the order they are passed.
Placeholders ==
    <<"GITHUB_PERSONAL_ACCESS_TOKEN", "GITHUB_USER_EMAIL", "GITHUB_USER_NAME",
      "GITHUB_ORGANIZATION", "GCLOUD_USER", "CLUSTER_IPV4_CIDR",
      "SERVICES_IPV4_CIDR">>

PlaceholderSet == {Placeholders[i] : i \in DOMAIN Placeholders}

\* strings.ReplaceAll(s, old, new) for a non-empty old: the matches are
\* taken from the left and do not overlap.
RECURSIVE ReplaceAll(_, _, _)
ReplaceAll(s, old, new) ==
    IF Len(s) < Len(old) THEN s
    ELSE IF SubSeq(s, 1, Len(old)) = old
         THEN new \o ReplaceAll(SubSeq(s, Len(old) + 1, Len(s)), old, new)
         ELSE <<Head(s)>> \o ReplaceAll(Tail(s), old, new)

\* The replacements doInstallation passes for the desired values d.
Replacements(d) ==
    [i \in DOMAIN Placeholders |->
        [placeholderValue |-> Placeholders[i], desiredValue |-> d[Placeholders[i]]]]

\* The loop of setDeploymentFileKey.
RECURSIVE Substitute(_, _)
Substitute(text, replacements) ==
    IF replacements = <<>> THEN text
    ELSE Substitute(ReplaceAll(text,
                               <<KeyPrefix, Head(replacements).placeholderValue>>,
                               <<KeyPrefix>> \o Head(replacements).desiredValue),
                    Tail(replacements))

\* The manifest texts: words of a template in any arrangement.
ManifestWords ==
    {KeyPrefix, "GITHUB_USER_NAME", "GITHUB_ORGANIZATION", "GCLOUD_USER", "\n"}

Manifests == UNION {[1..n -> ManifestWords] : n \in 0..MaxManifestLen}

\* The desired values: what a record read from a file and the answers of
\* gcloud may hold. A record typed at the prompts holds lower-case words.
DesiredValues ==
    {[p \in PlaceholderSet |->
         CASE p = "GITHUB_USER_NAME"    -> name
           [] p = "GITHUB_ORGANIZATION" -> org
           [] p = "GCLOUD_USER"         -> user
           [] p \in {"GITHUB_PERSONAL_ACCESS_TOKEN", "CLUSTER_IPV4_CIDR"} -> <<"c">>
           [] OTHER -> <<"d">>] :
        name \in {<<"a">>, <<"GITHUB_ORGANIZATION">>},
        org \in {<<"b">>, <<"GITHUB_USER_NAME">>},
        user \in {<<"d">>, <<>>}}

\* Other orders of the seven replacements: the reverse, and each exchange
\* of two neighbours.
Orders ==
    {[i \in DOMAIN Placeholders |-> Len(Placeholders) + 1 - i]}
        \cup {[i \in DOMAIN Placeholders |->
                 IF i = k THEN k + 1 ELSE IF i = k + 1 THEN k ELSE i] :
               k \in 1..(Len(Placeholders) - 1)}

InOrder(replacements, o) == [i \in DOMAIN replacements |-> replacements[o[i]]]

NoText == <<"?">>

TemplateInit ==
    /\ tPc = "idle" /\ manifest = <<>> /\ desired = [p \in PlaceholderSet |-> <<>>]
    /\ order = [i \in DOMAIN Placeholders |-> i]
    /\ content = <<>> /\ applied = 0 /\ once = NoText /\ reordered = NoText

\* installer.yaml is downloaded and the record and the answers of gcloud are
\* there.
TemplateCalled ==
    /\ tPc = "idle"
    /\ manifest' \in Manifests
    /\ desired' \in DesiredValues
    /\ order' \in Orders
    /\ content' = manifest'
    /\ tPc' = "called"
    /\ UNCHANGED <<applied, once, reordered, notTemplate>>

\* setDeploymentFileKey(installerPath, ..): the file is read, every
\* replacement is applied in turn, the file is written.
TemplateApply ==
    /\ tPc = "called" /\ applied < 2
    /\ content' = Substitute(content, Replacements(desired))
    /\ applied' = applied + 1
    /\ once' = IF applied = 0 THEN content' ELSE once
    /\ UNCHANGED <<tPc, manifest, desired, order, reordered, notTemplate>>

\* The same replacements passed in the other order, for the downloaded text.
TemplateApplyInOrder ==
    /\ tPc = "called" /\ reordered = NoText
    /\ reordered' = Substitute(manifest, InOrder(Replacements(desired), order))
    /\ UNCHANGED <<tPc, manifest, desired, order, content, applied, once, notTemplate>>

TemplateNext == TemplateCalled \/ TemplateApply \/ TemplateApplyInOrder

\* ------------------------------------------------------ specifications

Init ==
    /\ ClassifyInit /\ LogsInit /\ PodInit /\ EndpointInit /\ InstallInit
    /\ PromptInit /\ PreRunInit /\ CredsInit /\ TemplateInit

SpecClassify == Init /\ [][ClassifyNext]_vars

SpecLogs == Init /\ [][LogsNext]_vars

\* The process runs and the Go scheduler runs every runnable goroutine: while
\* some step of the three is possible, a step is taken.
LiveLogs == Init /\ [][LogsNext]_vars /\ WF_vars(LogsNext)

SpecPod == Init /\ [][PodNext]_vars

SpecEndpoint == Init /\ [][EndpointNext]_vars

SpecInstall == Init /\ [][InstallNext]_vars

SpecPrompt == Init /\ [][PromptNext]_vars

SpecPreRun == Init /\ [][PreRunNext]_vars

SpecCreds == Init /\ [][CredsNext]_vars

SpecTemplate == Init /\ [][TemplateNext]_vars

\* ------------------------------------------------------------- claims

SawQuiet(hist) == \E i \in DOMAIN hist : hist[i].quiet

SawSuccess(hist) == \E i \in DOMAIN hist : hist[i].success

\* C1: a stream in which any line read carries a marker of the quiet/error
\* level classifies as failure, wherever that line stands relative to the
\* success line; between lines the failure flag, once set, stays set.
C1_QuietMarkerFails ==
    /\ (cc.pc = "returned" /\ SawQuiet(ccHist)) => ~cc.res
    /\ (cc.pc = "scan" /\ SawQuiet(ccHist)) => cc.errorOccured

\* C1 witness: an error line was read first, the success line after it, and
\* the drain returned failure.
C1_Witness ==
    /\ cc.pc = "returned" /\ ~cc.err /\ ~cc.res
    /\ Len(ccHist) = 2
    /\ ccHist[1].quiet /\ ~ccHist[1].success
    /\ ccHist[2].success /\ ~ccHist[2].quiet

\* C2: a drain that read at least one line, none with a quiet/error marker,
\* and ran to the end of its stream returns success exactly when some line
\* read had the success message; later lines do not revoke it.
C2_SuccessIffTerminalMarker ==
    (cc.pc = "returned" /\ ~cc.err /\ Len(ccHist) >= 1 /\ ~SawQuiet(ccHist))
        => (cc.res <=> SawSuccess(ccHist))

\* C2 witness: the success line was read first, a line without it and without a
\* quiet marker after it, and the drain returned success.
C2_Witness ==
    /\ cc.pc = "returned" /\ cc.res
    /\ Len(ccHist) = 2
    /\ ccHist[1].success /\ ~ccHist[2].success /\ ~SawQuiet(ccHist)

\* C3: getInstallerLogs returns nil only if both drains returned success
\* and neither returned an error; in every other combination it returns an
\* error, as it does whenever a line read from either stream carried a quiet
\* marker.
C3_VerdictNeedsBothStreams ==
    mPc = "returned" =>
        /\ ret # "none"
        /\ (ret = "nil" <=> (tErr.res /\ tOut.res /\ ~tErr.err /\ ~tOut.err
                               /\ proc.pc = "exited" /\ proc.exitOK /\ installerDeleted))
        /\ ((SawQuiet(histErr) \/ SawQuiet(histOut)) => ret # "nil")

\* C3 witness: an error marker on stderr, the success line alone on stdout,
\* and getInstallerLogs returned the failure verdict.
C3_Witness ==
    /\ mPc = "returned" /\ ret = "unsuccessful"
    /\ SawQuiet(histErr) /\ ~SawSuccess(histErr)
    /\ SawSuccess(histOut) /\ ~SawQuiet(histOut) /\ tOut.res

\* C4: while getInstallerLogs is at execCmd.Wait() both copyAndCapture calls
\* have returned.
C4_WaitAfterBothDrains ==
    mPc = "wait" => (tOut.pc = "returned" /\ tErr.pc = "returned")

\* C4 witness: getInstallerLogs is at Wait after both drains read lines.
C4_Witness == mPc = "wait" /\ Len(histOut) >= 1 /\ Len(histErr) >= 1

\* C5: the boolean is handed over only after the stderr drain has returned
\* and the error only after the boolean; and once both pipes are closed
\* both handoffs happen, the goroutine ends and getInstallerLogs returns.
C5_Rendezvous ==
    /\ [](/\ gPc \in {"sendErr", "done"} => (tErr.pc = "returned" /\ tOut.pc = "returned")
          /\ mPc = "recvErr" => gPc = "sendErr"
          /\ mPc \in {"wait", "delete"} => gPc = "done")
    /\ (proc.pc = "exited") ~> (mPc = "returned" /\ gPc = "done")

\* C5 witness: both handoffs were made after both streams carried lines.
C5_Witness ==
    /\ mPc = "returned" /\ gPc = "done" /\ proc.pc = "exited"
    /\ Len(histOut) >= 1 /\ Len(histErr) >= 1

\* C6: in every execution getInstallerLogs eventually returns.
C6_AlwaysReturns == <>(mPc = "returned")

RunningPods(resp) == {i \in DOMAIN resp.items : resp.items[i].phase = "Running"}

\* C7: the loop ends at the first answer that lists a pod in phase "Running"
\* at any place of the list, and yields that pod's name.
C7_AnyRunningPodEndsLoop ==
    (podResp.kind = "list" /\ RunningPods(podResp) # {})
        => /\ wPc = "returned" /\ ~wErr
           /\ \E i \in RunningPods(podResp) : podName = podResp.items[i].name

C9_ReturnedPodIsRunning ==
    /\ (wPc = "returned" /\ ~wErr)
          => /\ podResp.kind = "list" /\ podRunning
             /\ \E i \in RunningPods(podResp) : podName = podResp.items[i].name
    /\ (podResp.kind = "list" /\ RunningPods(podResp) = {})
          => (wPc = "loop" /\ podName = "" /\ ~podRunning)

\* C9 witness: the name of a running pod was returned from a list that also
\* holds a pod in another phase, after a round whose list had no running pod.
C9_Witness ==
    /\ wPc = "returned" /\ ~wErr /\ polls >= 2
    /\ Len(podResp.items) = 2 /\ podResp.items[2].phase # "Running"
    /\ podName = podResp.items[1].name

\* C10: an accepted endpoint is non-empty and ends with the routable suffix,
\* and only such a value is passed to authenticate.
C10_AcceptedEndsWithSuffix ==
    /\ apiEndpointRetrieved
          => /\ Len(keptnEndpoint) >= 2 /\ Head(keptnEndpoint) = Https
             /\ HasSuffix(Tail(keptnEndpoint), XipIo)
    /\ authEndpoint # <<>>
          => (Head(authEndpoint) = Https /\ HasSuffix(Tail(authEndpoint), XipIo))

\* C11: every round of the endpoint loop that ends without an accepted
\* endpoint counts one; the round that brings the count to a multiple of 15
\* prints the "not yet available" notice exactly once, and every other
\* round prints none.
C11_NoticeEveryFifteenth ==
    (sPc = "poll" /\ attempts >= 1)
        => notices = (IF attempts % RetryNotice = 0 THEN 1 ELSE 0)

\* C12: once the secret is decoded the function does not return before an
\* endpoint is accepted; the loop goes round again only on a value that is
\* empty or lacks the routable suffix, whether or not the query failed; the
\* round that reads an accepted value leaves the loop, and authenticate is
\* called with "https://" put before that value.
C12_LoopEndsOnlyByAccepting ==
    /\ (sPc = "poll" /\ attempts >= 1)
          => /\ sRet = "none" /\ ~apiEndpointRetrieved /\ authEndpoint = <<>>
             /\ ~(keptnEndpoint # <<>> /\ HasSuffix(keptnEndpoint, XipIo))
    /\ (sPc \in {"authenticate", "configure"} \/ (sPc = "returned" /\ sRet # "secretErr"))
          => /\ attempts >= 1 /\ apiEndpointRetrieved
             /\ Len(keptnEndpoint) >= 2 /\ Head(keptnEndpoint) = Https
             /\ ~EndpointRejected(Tail(keptnEndpoint))
    /\ (sPc = "returned" /\ sRet # "secretErr") => authEndpoint = keptnEndpoint
    /\ authEndpoint # <<>> => authEndpoint = keptnEndpoint

\* C12 witness: authenticate was called with "https://x.xip.io" after rounds
\* that were rejected, the last query having reported an error.
C12_Witness ==
    /\ authEndpoint = <<Https, "x.", "xip.io">> /\ attempts >= 3 /\ queryErr
    /\ sPc = "configure"

\* The places in `done` of the calls that came back with an error.
FailedCalls == {i \in DOMAIN done : done[i].outcome \notin {"ok", "nil"}}

\* C13: the installer manifest is applied only after the RBAC manifest was
\* applied with success; when either apply fails doInstallation returns an
\* error at once: that apply is its last call, the pod was never polled, no
\* log was read, no bootstrap ran, and nothing was deleted or removed.
C13_RbacThenInstaller ==
    /\ \A i \in DOMAIN done :
          done[i].stage = "applyInstaller"
              => \E j \in 1..(i - 1) :
                    done[j].stage = "applyRbac" /\ done[j].outcome = "ok"
    /\ \A i \in FailedCalls :
          done[i].stage \in {"applyRbac", "applyInstaller"}
              => /\ i = Len(done) /\ iPc = "returned" /\ iRet = "err"
                 /\ wPc = "loop" /\ polls = 0 /\ installerPodName = ""
                 /\ mPc = "start" /\ proc.pc = "notStarted"
                 /\ sPc = "getSecret"
                 /\ ~installerDeleted /\ filePresent

\* C13 witness: the RBAC apply succeeded, the installer apply failed and
\* doInstallation has returned the error.
C13_Witness ==
    /\ Len(done) = 7 /\ done[6] = [stage |-> "applyRbac", outcome |-> "ok"]
    /\ done[7] = [stage |-> "applyInstaller", outcome |-> "err"]
    /\ iPc = "returned" /\ iRet = "err"

\* C14: the calls of doInstallation are made in the order of StageOrder, each
\* at most once; a call is made only when every call before it came back
\* without error; the first error is the last call and doInstallation has
\* returned it; waitForInstallerPod, getInstallerLogs and
\* setupKeptnAuthAndConfigure run only while doInstallation is at their
\* call; setupKeptnAuthAndConfigure is reached only after getInstallerLogs
\* returned nil.
C14_StagesInOrder ==
    /\ \A i \in DOMAIN done : done[i].stage = StageOrder[i]
    /\ \A i \in FailedCalls : i = Len(done)
    /\ (FailedCalls # {} /\ done[Len(done)].outcome # "panic")
          => (iPc = "returned" /\ iRet = "err")
    /\ FailedCalls = {}
          => IF Len(done) = Len(StageOrder)
             THEN iPc = "returned" /\ iRet = "nil"
             ELSE iPc = StageOrder[Len(done) + 1] /\ iRet = "none"
    /\ iPc # "waitPod" => (wPc = "loop" /\ polls = 0)
    /\ iPc # "logs" => (mPc = "start" /\ proc.pc = "notStarted")
    /\ iPc # "bootstrap" => (sPc = "getSecret" /\ attempts = 0)
    /\ (iPc = "bootstrap" \/ Len(done) >= StageIndex("bootstrap"))
          => done[StageIndex("logs")] = [stage |-> "logs", outcome |-> "nil"]

\* C14 witness: setupKeptnAuthAndConfigure is polling for the endpoint, after
\* nine calls that all came back without error.
C14_Witness ==
    /\ iPc = "bootstrap" /\ sPc = "poll" /\ attempts >= 1
    /\ Len(done) = 9 /\ installerPodName # ""

\* C15: an apply is made only after downloadFile created the file, and the
\* file is there when it is made; once created, the file is gone only when
\* all eleven calls came back without error, os.Remove being the last; when
\* any call after downloadFile and before os.Remove fails, doInstallation
\* ends with the file in place.
C15_FileLeftOnFailure ==
    /\ iPc \in {"applyRbac", "applyInstaller"}
          => (filePresent /\ done[StageIndex("download")].outcome = "ok")
    /\ (Len(done) >= 2 /\ done[2].outcome = "ok" /\ ~filePresent)
          => (Len(done) = Len(StageOrder) /\ FailedCalls = {} /\ iRet = "nil")
    /\ \A i \in FailedCalls :
          (i > StageIndex("download") /\ i < StageIndex("remove"))
              => (iPc \in {"returned", "panicked"} /\ filePresent)

\* C15 witness: setupKeptnAuthAndConfigure failed after the installer was
\* deleted; doInstallation has returned and the file is still there.
C15_Witness ==
    /\ Len(done) = 10 /\ done[10].outcome = "authErr"
    /\ iPc = "returned" /\ iRet = "err" /\ filePresent /\ installerDeleted

\* C18: in every round of readUserInput, for each of the three patterns: a
\* line that is not blank and does not match the pattern leaves the stored
\* value as it was and the loop goes round again; a blank line met with a
\* stored value leaves that value and ends the loop; and the stored value
\* differs from what the round found only when it is the line typed and
\* that line matches the pattern.
C18_PromptKeepsOrValidates ==
    reads >= 1 =>
        /\ (userInput # <<>> /\ ~Matches(regex, userInput))
              => (value = valueBefore /\ rPc = "asking")
        /\ (userInput = <<>> /\ valueBefore # <<>>)
              => (value = valueBefore /\ rPc = "done")
        /\ value # valueBefore
              => (value = userInput /\ Matches(regex, userInput) /\ rPc = "done")

\* C18 witness: after two rejected lines a third line that matches the email
\* pattern replaced a stored value.
C18_Witness ==
    /\ reads = 3 /\ rPc = "done" /\ regex = "email"
    /\ valueBefore = <<"A">> /\ value = userInput /\ Len(value) = 10

\* The words by which an error message could name a field.
FieldWords(f) ==
    CASE f = "GithubOrg"  -> {"GithubOrg", "githubOrg", "organization", "GitHub Organization"}
      [] f = "GkeProject" -> {"GkeProject", "gkeProject", "project", "GKE Project"}
      [] OTHER            -> {f}

NamesField(err, f) == \E i \in DOMAIN err : err[i] \in FieldWords(f)

\* The calls that go to the cluster or to the identity provider, and the
\* installation.
ClusterCalls == {"authenticateAtCluster", "HasTokenRepoScope", "IsOrgExisting", "doInstallation"}

MadeClusterCall == \E i \in DOMAIN calls : calls[i] \in ClusterCalls

FileWasRead == \E i \in DOMAIN calls : calls[i] = "utils.ReadFile"

\* C16: with a credential file, doInstallation is called only with a record
\* of which every field is non-empty and matches the pattern of its field.
C16_InstallsOnlyValidatedRecord ==
    (pPc = "doInstallation" /\ configFilePath # "")
        => \A f \in Fields : pCreds[f] # <<>> /\ Matches(FieldKind(f), pCreds[f])

\* C17 as stated: with a credential file that holds no organization, once
\* the file is read PreRunE has failed with an error that names the
\* organization field, and no call went to the cluster.
C17_ErrorNamesMissingField ==
    (configFilePath # "" /\ configFile.kind = "json" /\ configFile.rec["GithubOrg"] = <<>>
        /\ FileWasRead)
        => (pPc = "failed" /\ NamesField(pErr, "GithubOrg") /\ ~MadeClusterCall)

\* C17: with a credential file that holds no organization, no call goes to
\* the cluster, to the identity provider or to doInstallation; once the
\* file is read PreRunE has failed, its error being "Incomplete credential
\* file " followed by the path of the file.
C17_IncompleteFileAborts ==
    (configFilePath # "" /\ configFile.kind = "json" /\ configFile.rec["GithubOrg"] = <<>>)
        => /\ ~MadeClusterCall
           /\ FileWasRead => (pPc = "failed" /\ pErr = IncompleteError(configFilePath))

\* C17 witness: a file whose only empty field is the organization made
\* PreRunE fail with the incompleteness error.
C17_Witness ==
    /\ pPc = "failed" /\ pErr = IncompleteError(CredsPath) /\ FileWasRead
    /\ configFile.kind = "json" /\ configFile.rec["GithubOrg"] = <<>>
    /\ \A f \in Fields \ {"GithubOrg"} : configFile.rec[f] = Example(FieldKind(f))
    /\ pCreds = configFile.rec

\* C19: when HasTokenRepoScope says the token lacks the scope, the token is
\* emptied, every other field keeps its value, and getInstallCredentials
\* stands at the token prompt without having returned; when IsOrgExisting
\* says the organization does not exist, the same holds for the
\* organization field and its prompt.
C19_RejectionClearsOneField ==
    /\ event = "tokenRejected"
          => /\ creds["GithubPersonalAccessToken"] = <<>>
             /\ \A f \in Fields \ {"GithubPersonalAccessToken"} : creds[f] = credsBefore[f]
             /\ aPc = "GithubPersonalAccessToken" /\ aRet = "none"
    /\ event = "orgRejected"
          => /\ creds["GithubOrg"] = <<>>
             /\ \A f \in Fields \ {"GithubOrg"} : creds[f] = credsBefore[f]
             /\ aPc = "GithubOrg" /\ aRet = "none"

\* C19 witness: an organization that had been typed was rejected; the
\* token accepted before it and the other five fields are still there.
C19_Witness ==
    /\ event = "orgRejected" /\ credsBefore["GithubOrg"] = Other("name")
    /\ creds["GithubPersonalAccessToken"] = Other("token")
    /\ \A f \in Fields \ {"GithubOrg"} : creds[f] # <<>>

\* C20: an answer is taken for a yes only when it is "y" or "yes" after
\* TrimSpace; after any other answer getInstallCredentials stands at the
\* call of connectToCluster with every field as it was, all non-empty, and
\* nothing cached; SetInstallCreds is called at most once, only after a
\* yes, with the record as confirmed, and never on a run that returned the
\* error of a check or of reading the answer.
C20_CachedOnlyAfterYes ==
    /\ event = "confirmed" => answer \in {<<"y">>, <<"y", "e", "s">>}
    /\ event = "declined"
          => /\ answer \notin {<<"y">>, <<"y", "e", "s">>}
             /\ aPc = "connect" /\ aRet = "none" /\ cacheWrites = 0
             /\ creds = credsBefore /\ \A f \in Fields : creds[f] # <<>>
    /\ cacheWrites <= 1
    /\ cacheWrites = 1
          => /\ event = "confirmed" /\ cached = creds /\ credsBefore = creds
             /\ aPc = "returned" /\ aRet \in {"nil", "cacheErr"}
    /\ aPc \notin {"save", "returned"} => cacheWrites = 0
    /\ aRet \in {"scopeErr", "orgErr", "readErr"} => cacheWrites = 0
    /\ aRet \in {"nil", "cacheErr"} => cacheWrites = 1

\* C20 witness: the record, with a cluster name typed at the prompt, was
\* cached after the answer "yes" and getInstallCredentials returned nil.
C20_Witness ==
    /\ aPc = "returned" /\ aRet = "nil" /\ cacheWrites = 1
    /\ answer = <<"y", "e", "s">> /\ cached["ClusterName"] = Other("name")
    /\ cached["GithubOrg"] = Example("name")

ConnectPcs == {"ClusterName", "ClusterZone", "GkeProject", "authenticate"}

ClusterPart(c) == [f \in ClusterFields |-> c[f]]

\* C21: in connectToCluster the three identifiers are prompted for in order
\* and authentication is attempted after the third; an attempt changes
\* nothing in the record and returns no error; a failed attempt goes back
\* to the first prompt; and the loop is left only by an attempt that
\* succeeded with the identifiers the record holds at that moment.
C21_ConnectCycle ==
    [][/\ (aPc = "ClusterName" /\ aPc' # aPc) => aPc' = "ClusterZone"
       /\ (aPc = "ClusterZone" /\ aPc' # aPc) => aPc' = "GkeProject"
       /\ (aPc = "GkeProject" /\ aPc' # aPc) => aPc' = "authenticate"
       /\ aPc = "authenticate"
             => /\ event' \in {"connected", "authFailed"}
                /\ creds' = creds /\ credsBefore' = creds
                /\ aRet' = "none" /\ aPc' \in {"ClusterName", "GithubUserName"}
       /\ event' = "authFailed" => aPc = "authenticate" /\ aPc' = "ClusterName"
       /\ (aPc \in ConnectPcs /\ aPc' \notin ConnectPcs)
             => /\ aPc = "authenticate" /\ event' = "connected"
                /\ ClusterPart(creds') = ClusterPart(credsBefore')
                /\ aRet' = "none"]_vars

C21_Witness ==
    /\ event = "connected" /\ aPc = "GithubUserName" /\ aRet = "none"
    /\ ClusterPart(creds) = ClusterPart(credsBefore)

\* C27: when connectToCluster is entered with one of cluster name, zone and
\* project empty, the three are replaced by what getClusterInfo reads from
\* the current context, which is three empty strings unless the context
\* starts with "gke" and has four parts; entered with all three set, the
\* record is left as it was. No other field changes either way.
C27_InferenceOverwritesAllThree ==
    LET read == [err |-> event = "contextErr", out |-> answer]
        clusterInfo == TrimWhite(ReplaceCRLF(answer))
        followsGke == /\ event = "context"
                      /\ HasPrefix(clusterInfo, <<"g", "k", "e">>)
                      /\ Len(Split(clusterInfo, "_")) >= 4
    IN  /\ event \in {"context", "contextErr"}
            => /\ AnyClusterFieldEmpty(credsBefore)
               /\ ClusterPart(creds) = GetClusterInfo(read)
               /\ ~followsGke => ClusterPart(creds) = NoClusterInfo
               /\ \A f \in Fields \ ClusterFields : creds[f] = credsBefore[f]
        /\ event = "entered"
            => ~AnyClusterFieldEmpty(credsBefore) /\ creds = credsBefore

C27_Witness ==
    /\ event = "context"
    /\ credsBefore["ClusterName"] = Example("name")
    /\ credsBefore["ClusterZone"] = <<>>
    /\ creds["ClusterName"] = <<"a">> /\ creds["ClusterZone"] = <<"b">>
    /\ creds["GkeProject"] = <<"a">>

\* C22: whatever the manifest text and the desired values, a second run of
\* setDeploymentFileKey leaves the text the first run wrote, and a run with
\* the replacements in another order writes the text the first run wrote.
C22_IdempotentAndOrderIndependent ==
    /\ applied = 2 => content = once
    /\ (applied >= 1 /\ reordered # NoText) => reordered = once

\* C23: in setupKeptnAuthAndConfigure a failure to read, parse or decode the
\* secret returns before the first round of the endpoint loop; authenticate
\* is called only once an endpoint was accepted; configure is reached only
\* from an authenticate that returned no error, and returns the last word;
\* after an error of either nothing more is done.
C23_BootstrapOrder ==
    [][/\ sRet' = "secretErr"
             => /\ sPc = "getSecret" /\ sPc' = "returned"
                /\ attempts' = 0 /\ authEndpoint' = <<>> /\ keptnEndpoint' = <<>>
       /\ sPc' = "poll" => sPc \in {"getSecret", "poll"} /\ sRet' = "none"
       /\ authEndpoint' # authEndpoint
             => /\ sPc = "authenticate" /\ apiEndpointRetrieved /\ attempts >= 1
                /\ authEndpoint = <<>> /\ authEndpoint' = keptnEndpoint
                /\ sPc' = IF sRet' = "authErr" THEN "returned" ELSE "configure"
       /\ sPc' = "configure"
             => sPc = "authenticate" /\ sRet' = "none" /\ authEndpoint' # <<>>
       /\ sRet' = "authErr" => sPc = "authenticate" /\ sPc' = "returned"
       /\ sPc = "configure"
             => sPc' = "returned" /\ sRet' \in {"nil", "configErr"}
       /\ sRet' \in {"nil", "configErr"} => sPc = "configure" /\ sRet = "none"
       /\ sPc # "returned"]_endpointVars

C23_Witness ==
    /\ sPc = "returned" /\ sRet = "authErr"
    /\ attempts >= 1 /\ authEndpoint = keptnEndpoint /\ authEndpoint # <<>>

\* The files the two drain tasks have created in the keptn directory.
LogFiles ==
    {FileName(stream) :
        stream \in {st \in {"stdout", "stderr"} :
                       IF st = "stdout" THEN tOut.file ELSE tErr.file}}

\* What C24 says of one drain task: t is its copyAndCapture, read the lines
\* it has read so far.
PersistsEveryLine(t, read, stream) ==
    /\ t.file = (FileName(stream) \in LogFiles)
    /\ read = <<>> => ~t.file /\ t.written = 0
    /\ t.file => read # <<>>
    /\ t.pc = "write" => t.written = Len(read) - 1
    /\ t.pc = "classify" => t.file /\ t.written = Len(read)
    /\ t.pc = "scan" => t.written = Len(read)
    /\ t.pc = "returned"
          => IF t.err THEN ~t.file /\ Len(read) = 1 ELSE t.written = Len(read)

\* C24: a drain task has created its log file exactly when it has read a
\* first line and the creation did not fail; when a line is classified it
\* has been appended to the file, marker or not, so the file holds as many
\* lines as were read; the files of the two tasks have different names, and
\* each exists only by its own task.
C24_EveryLinePersistedFirst ==
    /\ PersistsEveryLine(tOut, histOut, "stdout")
    /\ PersistsEveryLine(tErr, histErr, "stderr")
    /\ FileName("stdout") # FileName("stderr")

C24_Witness ==
    /\ LogFiles = {"keptn-installer-err.log"}
    /\ tErr.pc = "classify" /\ tErr.written = 2
    /\ ~histErr[2].quiet /\ ~histErr[2].success
    /\ histOut = <<>> /\ tOut.pc = "returned" /\ ~tOut.file

\* Both streams ended without a line and the log process exited normally.
NothingRead ==
    /\ iPc = "logs" /\ histOut = <<>> /\ histErr = <<>>
    /\ proc.pc = "exited" /\ proc.exitOK

\* C25: a copyAndCapture that returns without having read a line returns
\* true and no error; so when both streams gave no line and the process
\* exited normally, getInstallerLogs gives no unsuccessful verdict, runs
\* the delete command and returns what that returned, and on nil
\* doInstallation goes on to the bootstrap.
C25_NothingReadIsSuccess ==
    [][/\ (tOut'.pc = "returned" /\ histOut' = <<>>) => (tOut'.res /\ ~tOut'.err)
       /\ (tErr'.pc = "returned" /\ histErr' = <<>>) => (tErr'.res /\ ~tErr'.err)
       /\ (NothingRead /\ mPc = "wait") => (mPc' = "delete" /\ ret' = "none")
       /\ (NothingRead' /\ mPc' = "returned")
             => /\ ret' \in {"nil", "deleteErr"}
                /\ installerDeleted' = (ret' = "nil")
       /\ (NothingRead /\ mPc = "returned" /\ ret = "nil")
             => /\ iPc' = "bootstrap" /\ iRet' = "none"
                /\ done' = Append(done, [stage |-> "logs", outcome |-> "nil"])]_vars

C25_Witness ==
    /\ NothingRead /\ mPc = "returned" /\ ret = "nil" /\ installerDeleted
    /\ tOut.res /\ tErr.res /\ ~tOut.file /\ ~tErr.file

\* The verdicts of getInstallerLogs that come before the delete command.
FailureVerdicts == {"startErr", "errStdErr", "errStdOut", "waitErr", "unsuccessful"}

\* C26: the delete command is reached, and the deployment deleted, only
\* when both copyAndCapture calls returned true without error and Wait
\* returned no error; with a failure verdict the deployment is left; an
\* error of the delete command is what getInstallerLogs returns, and then
\* doInstallation returns it with the bootstrap never started.
C26_DeleteOnlyAfterSuccess ==
    [][/\ (mPc' = "delete" \/ ret' \in {"nil", "deleteErr"})
             => /\ tErr'.pc = "returned" /\ tErr'.res /\ ~tErr'.err
                /\ tOut'.pc = "returned" /\ tOut'.res /\ ~tOut'.err
                /\ installSuccessfulStdOut' /\ ~errStdOut'
                /\ proc'.pc = "exited" /\ proc'.exitOK
       /\ installerDeleted' # installerDeleted
             => mPc = "delete" /\ installerDeleted' /\ ret' = "nil"
       /\ ret' \in FailureVerdicts \cup {"deleteErr"}
             => ~installerDeleted' /\ mPc' = "returned"
       /\ (mPc = "returned" /\ ret = "deleteErr")
             => /\ iPc' = "returned" /\ iRet' = "err" /\ sPc' = "getSecret"
                /\ done' = Append(done, [stage |-> "logs", outcome |-> "deleteErr"])
       /\ iPc' = "bootstrap"
             => /\ installerDeleted'
                /\ done'[StageIndex("logs")] = [stage |-> "logs", outcome |-> "nil"]
       /\ iPc = "returned" => UNCHANGED vars]_vars

C26_Witness ==
    /\ iPc = "returned" /\ iRet = "err" /\ ~installerDeleted
    /\ done[Len(done)] = [stage |-> "logs", outcome |-> "deleteErr"]
    /\ sPc = "getSecret" /\ attempts = 0

====
